---------------------------- MODULE Spec2Model ----------------------------
(***************************************************************************)
(* State-machine model of the synchronization-resilience core of          *)
(* zainokta/item-sync: the per-target circuit breaker (pkg/circuit), the   *)
(* backoff retrier (pkg/retry), the sync job (internal/item/jobs), the     *)
(* worker scheduler (internal/infrastructure/worker) and the application   *)
(* composition root that registers the jobs.                               *)
(*                                                                         *)
(* Each component has its own specification (SpecBreaker, SpecRetrier,     *)
(* SpecJob, SpecSched, SpecApp); the variables of the other components are *)
(* parked at their initial value while one component runs.                 *)
(***************************************************************************)
EXTENDS Integers, Sequences, FiniteSets, TLC

VARIABLES
    \* ---- circuit breaker (CircuitBreaker struct, breaker.go:35-47)
    threshold,      \* cb.threshold (config.CircuitThreshold)
    timeout,        \* cb.timeout   (config.CircuitTimeout), in clock units
    state,          \* cb.state
    failureCount,   \* cb.failureCount
    successCount,   \* cb.successCount
    lastFailTime,   \* cb.lastFailTime
    nextRetryTime,  \* cb.nextRetryTime
    now,            \* the wall clock read by time.Now()
    cpc,            \* per caller of Execute: "idle" or "op" (operation running)
    cret,           \* per caller: what its last Execute returned
    opCalls,        \* number of times the guarded operation was invoked
    lastGate,       \* history: per caller, what canExecute saw and answered
    streak,         \* history: failures recorded since the last recorded success
    closedBase,     \* history: the breaker was Closed when the streak began
    tripTime,       \* history: clock value when the streak reached threshold
    \* ---- retrier (Retrier.Execute, logger.go:82-117)
    maxRetries,     \* r.config.MaxRetries
    attempt,        \* loop variable of Execute
    rpc,            \* position in Execute: "idle", "call", "sleep", "done"
    lastErr,        \* local lastErr
    rret,           \* what Execute returned
    delay,          \* the backoff being slept
    rctx,           \* the context passed to Execute: "live", or how it ended
    outcomes,       \* history: the error of each invocation of the operation
    delays,         \* history: the backoff slept before each retry
    \* ---- sync job (SyncJob.Execute, sync_job.go:57-218) and its run records
    apiType,        \* j.apiType
    jctx,           \* the job context: "live", or how it ended
    jpc,            \* position in Execute
    syncJobs,       \* the sync_jobs table: one row per created Run Record
    jobID,          \* id returned by CreateSyncJobRecord
    itemsProcessed, \* itemsProcessed / processed
    itemsSucceeded, \* itemsSucceeded / succeeded
    itemsFailed,    \* itemsFailed / failed
    lastError,      \* lastError / lastErr
    pending,        \* fetched items not yet upserted
    cities,         \* cities not yet fetched (openweather)
    jret,           \* what Execute returned
    \* ---- scheduler (Scheduler struct, worker scheduler 17-25) and its callers
    enabled,        \* s.config.Enabled
    jobs,           \* s.jobs: job name -> the registered job (its API type)
    running,        \* s.running
    stopChan,       \* s.stopChan: "open" or "closed"
    wg,             \* s.wg: the WaitGroup counter
    sctx,           \* the context passed to Start: "live" or "canceled"
    spc,            \* per Start call: "none", "idle", "select", "launch", "returned"
    ticker,         \* per Start call: a tick is waiting in ticker.C
    toLaunch,       \* per Start call: executeJobs' slice of jobs, not yet launched
    execs,          \* the job goroutines launched so far, in launch order
    stpc,           \* per Stop call: "none", "idle", "close", "wait", "returned", "panicked"
    crashed,        \* "no", or the unrecovered panic that ended the process
    appPc,          \* NewApplication: "lib" (scheduler used alone), "new", "built"
    apiIdx,         \* NewApplication: index into availableAPIs
    appStarted,     \* Application.Start was called
    appShut,        \* Application.Shutdown was called
    intervals,      \* history: per Start call, SyncIntervals elapsed on its ticker
    ticksTaken,     \* history: per Start call, ticks its loop received
    lastCall,       \* history: which of Start and Stop took the lock last
    inflightAtStop, \* history: per Stop call, how many executions were running when
                    \* it was called
    launchedAtStop, \* history: per Stop call, how many executions had been launched
                    \* when it was called (the ones still running then are among them)
    foundRunning,   \* history: per Stop call, s.running when it was called
    \* ---- pagination (PokemonSyncStrategy.FetchAllItems, pokemon_sync.go:22-76)
    pclient,        \* the ExternalAPIClient passed in: what its items carry
    pages,          \* the pages the source serves, in order
    reqLimit,       \* request.Params["limit"] (0: not given)
    poffset,        \* local offset
    plimit,         \* local limit
    allItems,       \* local allItems
    fetchCalls,     \* number of calls of apiClient.Fetch
    ppc,            \* position in FetchAllItems: "loop" or "done"
    perr,           \* the error FetchAllItems returned
    fetched,        \* history: per call of Fetch, the limit asked and the page got
    \* ---- items table (ItemRepository, item repository 32-296)
    items,          \* table items: per (external_id, api_source), its rows
    ups,            \* history: per pair, its UpsertWithHash calls: how many, and the last one
    \* ---- breaker registry (BreakerManager, breaker.go:153-188)
    breakers,       \* bm.breakers: name -> the breaker stored (0: no entry)
    mu,             \* bm.mu: the goroutines holding it for reading, and the one writing
    gpc,            \* per goroutine: its position in GetBreaker
    gname,          \* per goroutine: the name it asked for
    gret,           \* per goroutine: the breaker GetBreaker returned (0: none yet)
    created,        \* history: per name, the number of NewCircuitBreaker calls
    missed,         \* history: per goroutine, its read-locked lookup found no entry
    \* ---- API client factory (package api: getBaseClient, NewAPIClient)
    instance,       \* the BaseClient kept by once.Do, as the id of its BreakerManager (0: nil)
    managers,       \* number of BreakerManagers created so far
    clients,        \* the clients NewAPIClient has returned: API type, BreakerManager
    cbs,            \* per BreakerManager and name: the breaker it holds, if any
    apiCalls,       \* number of doRequest calls made
    acall,          \* history: the last doRequest call: client, result, what the gate faced
    tstreak         \* history: per target, the failures recorded since its last success

breakerVars == <<threshold, timeout, state, failureCount, successCount,
                 lastFailTime, nextRetryTime, now, cpc, cret, opCalls,
                 lastGate, streak, closedBase, tripTime>>

retrierVars == <<maxRetries, attempt, rpc, lastErr, rret, delay, rctx,
                 outcomes, delays>>

jobVars == <<apiType, jctx, jpc, syncJobs, jobID, itemsProcessed, itemsSucceeded,
             itemsFailed, lastError, pending, cities, jret>>

schedVars == <<enabled, jobs, running, stopChan, wg, sctx, spc, ticker, toLaunch,
               execs, stpc, crashed, appPc, apiIdx, appStarted, appShut,
               intervals, ticksTaken, inflightAtStop, launchedAtStop,
               foundRunning,
                   lastCall>>

pageVars == <<pclient, pages, reqLimit, poffset, plimit, allItems, fetchCalls,
              ppc, perr, fetched>>

itemVars == <<items, ups>>

mgrVars == <<breakers, mu, gpc, gname, gret, created, missed>>

apiVars == <<instance, managers, clients, cbs, apiCalls, acall, tstreak>>

vars == <<breakerVars, retrierVars, jobVars, schedVars, pageVars, itemVars,
          mgrVars, apiVars>>

\* What the actions of one component leave alone
outsideBreaker ==
    <<retrierVars, jobVars, schedVars, pageVars, itemVars, mgrVars,
      apiVars>>
outsideRetrier ==
    <<breakerVars, jobVars, schedVars, pageVars, itemVars, mgrVars,
      apiVars>>
outsideJob ==
    <<breakerVars, retrierVars, schedVars, pageVars, itemVars, mgrVars,
      apiVars>>
outsideSched ==
    <<breakerVars, retrierVars, jobVars, pageVars, itemVars, mgrVars,
      apiVars>>
outsidePage ==
    <<breakerVars, retrierVars, jobVars, schedVars, itemVars, mgrVars,
      apiVars>>
outsideItems ==
    <<breakerVars, retrierVars, jobVars, schedVars, pageVars, mgrVars,
      apiVars>>
outsideMgr ==
    <<breakerVars, retrierVars, jobVars, schedVars, pageVars, itemVars,
      apiVars>>
outsideApi ==
    <<breakerVars, retrierVars, jobVars, schedVars, pageVars, itemVars,
      mgrVars>>

---------------------------------------------------------------------------
(* Bounds of the model *)

MaxThreshold == 2
MaxTimeout == 2
MaxTime == 5
MaxCalls == 5
NumCallers == 2
MaxMaxRetries == 3
MaxItems == 2
MaxTicks == 2
MaxExecs == 4
MaxBackoffRetries == 35
MaxPages == 3
MaxPageLimit == 2
MaxUpserts == 3
NumGetters == 3

---------------------------------------------------------------------------
(* Circuit breaker: src/pkg/circuit/breaker.go *)

StateClosed == "CLOSED"
StateOpen == "OPEN"
StateHalfOpen == "HALF_OPEN"

\* time.Time{}: the zero time, before every clock reading
ZeroTime == 0

Callers == 1..NumCallers

ErrCircuitOpen == "circuit breaker is open"

NoGate == [st |-> "none", cooling |-> FALSE, admitted |-> FALSE]

NewCircuitBreaker ==
    /\ threshold \in 1..MaxThreshold
    /\ timeout \in 1..MaxTimeout
    /\ state = StateClosed
    /\ failureCount = 0
    /\ successCount = 0
    /\ lastFailTime = ZeroTime
    /\ nextRetryTime = ZeroTime

BreakerRest ==
    /\ now = 1
    /\ cpc = [p \in Callers |-> "idle"]
    /\ cret = [p \in Callers |-> "none"]
    /\ opCalls = 0
    /\ lastGate = [p \in Callers |-> NoGate]
    /\ streak = 0
    /\ closedBase = TRUE
    /\ tripTime = ZeroTime

BreakerInit == NewCircuitBreaker /\ BreakerRest

BreakerParked ==
    /\ threshold = 1
    /\ timeout = 1
    /\ state = StateClosed
    /\ failureCount = 0
    /\ successCount = 0
    /\ lastFailTime = ZeroTime
    /\ nextRetryTime = ZeroTime
    /\ BreakerRest

\* time.Now().After(cb.nextRetryTime)
After(t, u) == t > u

\* canExecute that admits calls in every state
canExecuteAlways == TRUE

\* canExecute with the retry time itself counted as elapsed
canExecuteFromRetryTime ==
    CASE state = StateClosed -> TRUE
      [] state = StateOpen -> now >= nextRetryTime
      [] state = StateHalfOpen -> TRUE
      [] OTHER -> FALSE

\* canExecute that never lets a call through an Open breaker
canExecuteOpenRejects ==
    CASE state = StateClosed -> TRUE
      [] state = StateOpen -> FALSE
      [] state = StateHalfOpen -> TRUE
      [] OTHER -> FALSE

canExecute ==
    CASE state = StateClosed -> TRUE
      [] state = StateOpen -> After(now, nextRetryTime)
      [] state = StateHalfOpen -> TRUE
      [] OTHER -> FALSE

recordFailureStrictThreshold ==
    /\ failureCount' = failureCount + 1
    /\ lastFailTime' = now
    /\ CASE state = StateClosed /\ failureCount + 1 > threshold ->
                /\ state' = StateOpen
                /\ nextRetryTime' = now + timeout
         [] state = StateHalfOpen ->
                /\ state' = StateOpen
                /\ nextRetryTime' = now + timeout
         [] OTHER -> UNCHANGED <<state, nextRetryTime>>
    /\ UNCHANGED successCount

\* recordFailure whose switch has no case for HalfOpen
recordFailureNoHalfOpen ==
    /\ failureCount' = failureCount + 1
    /\ lastFailTime' = now
    /\ CASE state = StateClosed /\ failureCount + 1 >= threshold ->
                /\ state' = StateOpen
                /\ nextRetryTime' = now + timeout
         [] OTHER -> UNCHANGED <<state, nextRetryTime>>
    /\ UNCHANGED successCount

\* recordFailure that also pushes the retry time back when the breaker is Open
recordFailureRearms ==
    /\ failureCount' = failureCount + 1
    /\ lastFailTime' = now
    /\ CASE state = StateClosed /\ failureCount + 1 >= threshold ->
                /\ state' = StateOpen
                /\ nextRetryTime' = now + timeout
         [] state = StateHalfOpen ->
                /\ state' = StateOpen
                /\ nextRetryTime' = now + timeout
         [] state = StateOpen ->
                /\ nextRetryTime' = now + timeout
                /\ UNCHANGED state
         [] OTHER -> UNCHANGED <<state, nextRetryTime>>
    /\ UNCHANGED successCount

recordFailure ==
    /\ failureCount' = failureCount + 1
    /\ lastFailTime' = now
    /\ CASE state = StateClosed /\ failureCount + 1 >= threshold ->
                /\ state' = StateOpen
                /\ nextRetryTime' = now + timeout
         [] state = StateHalfOpen ->
                /\ state' = StateOpen
                /\ nextRetryTime' = now + timeout
         [] OTHER -> UNCHANGED <<state, nextRetryTime>>
    /\ UNCHANGED successCount

\* recordSuccess whose Closed case leaves the failure count as it is
recordSuccessKeepsFailures ==
    /\ CASE state = StateClosed ->
                /\ successCount' = successCount + 1
                /\ UNCHANGED <<state, failureCount>>
         [] state = StateHalfOpen ->
                /\ state' = StateClosed
                /\ failureCount' = 0
                /\ successCount' = 0
         [] state = StateOpen ->
                /\ successCount' = successCount + 1
                /\ state' = IF After(now, nextRetryTime) THEN StateHalfOpen ELSE state
                /\ UNCHANGED failureCount
         [] OTHER ->
                /\ successCount' = successCount + 1
                /\ UNCHANGED <<state, failureCount>>
    /\ UNCHANGED <<lastFailTime, nextRetryTime>>

\* recordSuccess with reset() inlined: successCount++ and then, in Closed and
\* HalfOpen, both counters are zeroed
recordSuccess ==
    /\ CASE state = StateClosed ->
                /\ failureCount' = 0
                /\ successCount' = 0
                /\ UNCHANGED state
         [] state = StateHalfOpen ->
                /\ state' = StateClosed
                /\ failureCount' = 0
                /\ successCount' = 0
         [] state = StateOpen ->
                /\ successCount' = successCount + 1
                /\ state' = IF After(now, nextRetryTime) THEN StateHalfOpen ELSE state
                /\ UNCHANGED failureCount
         [] OTHER ->
                /\ successCount' = successCount + 1
                /\ UNCHANGED <<state, failureCount>>
    /\ UNCHANGED <<lastFailTime, nextRetryTime>>

recordResult(err) ==
    IF err # "nil" THEN recordFailure ELSE recordSuccess

\* Execute, first half: the gate.  A rejected call returns ErrCircuitOpen and
\* the operation is not invoked; an admitted call invokes the operation.
ExecuteGate(p) ==
    /\ UNCHANGED outsideBreaker
    /\ cpc[p] = "idle"
    /\ opCalls < MaxCalls
    /\ lastGate' = [lastGate EXCEPT ![p] =
            [st |-> state,
             cooling |-> state = StateOpen /\ now < nextRetryTime,
             admitted |-> canExecute]]
    /\ IF canExecute
         THEN /\ cpc' = [cpc EXCEPT ![p] = "op"]
              /\ opCalls' = opCalls + 1
              /\ cret' = [cret EXCEPT ![p] = "none"]
         ELSE /\ cret' = [cret EXCEPT ![p] = ErrCircuitOpen]
              /\ UNCHANGED <<cpc, opCalls>>
    /\ UNCHANGED <<threshold, timeout, state, failureCount, successCount,
                   lastFailTime, nextRetryTime, now, streak, closedBase, tripTime>>

\* Execute, second half: the operation returns err ("nil" or an error), the
\* result is recorded under the lock and returned.
ExecuteRecord(p, err) ==
    /\ UNCHANGED outsideBreaker
    /\ cpc[p] = "op"
    /\ recordResult(err)
    /\ cpc' = [cpc EXCEPT ![p] = "idle"]
    /\ cret' = [cret EXCEPT ![p] = err]
    /\ streak' = IF err = "nil" THEN 0 ELSE streak + 1
    /\ closedBase' = IF err = "nil" THEN state' = StateClosed ELSE closedBase
    /\ tripTime' = IF err # "nil" /\ closedBase /\ streak + 1 = threshold
                     THEN now ELSE tripTime
    /\ UNCHANGED <<threshold, timeout, now, opCalls, lastGate>>

ClockTick ==
    /\ UNCHANGED outsideBreaker
    /\ now < MaxTime
    /\ now' = now + 1
    /\ UNCHANGED <<threshold, timeout, state, failureCount, successCount,
                   lastFailTime, nextRetryTime, cpc, cret, opCalls, lastGate,
                   streak, closedBase, tripTime>>

BreakerNext ==
    \/ \E p \in Callers : ExecuteGate(p)
    \/ \E p \in Callers : \E err \in {"nil", "error"} : ExecuteRecord(p, err)
    \/ ClockTick

\* Recovery: the breaker under callers that never stop calling.  Operations
\* fail only among the first MaxCalls invocations and only while a retry
\* time set by the failure stays below MaxTime; from then on every operation
\* succeeds.  The clock reading MaxTime stands for every later time: no retry
\* time reaches it, so every comparison with one comes out as it would later.
FailuresPossible == opCalls < MaxCalls /\ now + MaxTimeout < MaxTime

\* Execute, first half, with the invocations counted up to MaxCalls only
RecoverGate(p) ==
    /\ UNCHANGED outsideBreaker
    /\ cpc[p] = "idle"
    /\ lastGate' = [lastGate EXCEPT ![p] =
            [st |-> state,
             cooling |-> state = StateOpen /\ now < nextRetryTime,
             admitted |-> canExecute]]
    /\ IF canExecute
         THEN /\ cpc' = [cpc EXCEPT ![p] = "op"]
              /\ opCalls' = IF opCalls < MaxCalls THEN opCalls + 1 ELSE opCalls
              /\ cret' = [cret EXCEPT ![p] = "none"]
         ELSE /\ cret' = [cret EXCEPT ![p] = ErrCircuitOpen]
              /\ UNCHANGED <<cpc, opCalls>>
    /\ UNCHANGED <<threshold, timeout, state, failureCount, successCount,
                   lastFailTime, nextRetryTime, now, streak, closedBase, tripTime>>

\* Execute, second half: the operation returns and the result is recorded
RecoverRecord(p, err) ==
    /\ err # "nil" => FailuresPossible
    /\ ExecuteRecord(p, err)

\* the goroutines that call Execute
RecoverCallers == {1, 2}

RecoverNext ==
    \/ \E p \in RecoverCallers : RecoverGate(p)
    \/ \E p \in RecoverCallers : \E err \in {"nil", "error"} : RecoverRecord(p, err)
    \/ ClockTick

\* every caller keeps calling, every operation let through returns, and time
\* passes
RecoverFairness ==
    /\ \A p \in RecoverCallers : WF_vars(RecoverGate(p))
    /\ \A p \in RecoverCallers :
          WF_vars(\E err \in {"nil", "error"} : RecoverRecord(p, err))
    /\ WF_vars(ClockTick)



---------------------------------------------------------------------------
(* Backoff retrier: package retry, src/internal/infrastructure/middleware/logger.go *)

\* RetryConfig defaults (src/config/config.go:98-100), in seconds
InitialDelay == 1
MaxDelay == 30
BackoffFactor == 2

\* An error value: how it is marked (RetryableError, NonRetryableError or not
\* wrapped) and the error at the end of its Unwrap chain.
NilErr == [mark |-> "nil", base |-> "nil"]
Err(mark, base) == [mark |-> mark, base |-> base]

ContextCanceled == Err("none", "context.Canceled")
ContextDeadlineExceeded == Err("none", "context.DeadlineExceeded")

\* What an operation may return
OperationResults ==
    { NilErr,
      Err("none", "transport"),
      Err("retryable", "transport"),
      Err("nonretryable", "http4xx"),
      Err("nonretryable", "context.Canceled"),
      ContextCanceled,
      ContextDeadlineExceeded }

\* errors.Is(err, target): target is found along err's Unwrap chain
ErrorsIs(err, target) == err.base = target.base

shouldRetry(err) ==
    IF err = NilErr THEN FALSE
    ELSE IF ErrorsIs(err, ContextCanceled) \/ ErrorsIs(err, ContextDeadlineExceeded)
         THEN FALSE
         ELSE TRUE

IsRetryable(err) ==
    IF err.mark = "nonretryable" THEN FALSE
    ELSE IF err.mark = "retryable" THEN TRUE
         ELSE TRUE

RECURSIVE Pow(_, _)
Pow(b, e) == IF e = 0 THEN 1 ELSE b * Pow(b, e - 1)

\* b^e, computed up to the ceiling cap
RECURSIVE PowUpTo(_, _, _)
PowUpTo(b, e, cap) ==
    IF e = 0 THEN 1
    ELSE LET r == PowUpTo(b, e - 1, cap)
         IN  IF r * b > cap THEN cap ELSE r * b

\* time.Second, in nanoseconds, the unit of time.Duration
NanosPerSecond == 1000000000

\* time.Duration is an int64: its values are below 2^Int64Bits nanoseconds
Int64Bits == 63

\* time.Duration(math.MinInt64), about -292 years, written as the least
\* integer the model's arithmetic has
MinDuration == -2147483647

\* whether the float64 product ns * 2^e (ns < 2^31) is below 2^63, so that
\* its conversion to int64 is defined: ns * 2^e < 2^63 iff ns < 2^(63-e)
FitsInt64(ns, e) ==
    IF e >= Int64Bits THEN FALSE
    ELSE IF Int64Bits - e > 30 THEN TRUE
         ELSE ns < Pow(2, Int64Bits - e)

\* calculateBackoff(attempt): the values it may return, in seconds.
\*   delay := time.Duration(float64(InitialDelay) * math.Pow(BackoffFactor, attempt-1))
\*   if delay > MaxDelay { delay = MaxDelay }
\* With BackoffFactor = 2 the float64 product is exact.  When it does not fit
\* an int64 the result of the conversion depends on the implementation: a
\* saturating conversion gives MaxInt64, which the test caps to MaxDelay; the
\* conversion of amd64 gives MinInt64, which passes the test and is returned.
calculateBackoff(k) ==
    IF FitsInt64(InitialDelay * NanosPerSecond, k - 1)
      THEN LET d == InitialDelay * PowUpTo(BackoffFactor, k - 1, MaxDelay + 1)
           IN  {IF d > MaxDelay THEN MaxDelay ELSE d}
      ELSE {MaxDelay, MinDuration}

\* ctx.Err()
CtxErr(ctx) ==
    IF ctx = "canceled" THEN ContextCanceled ELSE ContextDeadlineExceeded

RetrierParked ==
    /\ maxRetries = 0
    /\ attempt = 0
    /\ rpc = "idle"
    /\ lastErr = NilErr
    /\ rret = "none"
    /\ delay = 0
    /\ rctx = "live"
    /\ outcomes = <<>>
    /\ delays = <<>>

RetrierInit ==
    /\ maxRetries \in 0..MaxMaxRetries
    /\ attempt = 0
    /\ rpc = "idle"
    /\ lastErr = NilErr
    /\ rret = "none"
    /\ delay = 0
    /\ rctx = "live"
    /\ outcomes = <<>>
    /\ delays = <<>>

\* Execute is entered: attempt = 0, which has no backoff
RetrierEnter ==
    /\ UNCHANGED outsideRetrier
    /\ rpc = "idle"
    /\ attempt' = 0
    /\ rpc' = "call"
    /\ UNCHANGED <<maxRetries, lastErr, rret, delay, rctx, outcomes, delays>>

\* The loop of Execute running one iteration too many
RetrierAttemptOneMore(err) ==
    /\ UNCHANGED outsideRetrier
    /\ rpc = "call"
    /\ outcomes' = Append(outcomes, err)
    /\ IF err = NilErr
         THEN /\ rpc' = "done"
              /\ rret' = NilErr
              /\ UNCHANGED <<lastErr, attempt, delay>>
         ELSE /\ lastErr' = err
              /\ IF ~shouldRetry(err)
                   THEN /\ rpc' = "done"
                        /\ rret' = err
                        /\ UNCHANGED <<attempt, delay>>
                   ELSE IF attempt + 1 <= maxRetries + 1
                          THEN /\ attempt' = attempt + 1
                               /\ delay' = 1
                               /\ rpc' = "sleep"
                               /\ UNCHANGED rret
                          ELSE /\ rpc' = "done"
                               /\ rret' = err
                               /\ attempt' = attempt + 1
                               /\ UNCHANGED delay
    /\ UNCHANGED <<maxRetries, rctx, delays>>

\* The rest of one loop iteration: the operation is invoked and returns err;
\* Execute returns, or goes on to the next attempt and its backoff.
RetrierAttempt(err) ==
    /\ UNCHANGED outsideRetrier
    /\ rpc = "call"
    /\ outcomes' = Append(outcomes, err)
    /\ IF err = NilErr
         THEN /\ rpc' = "done"
              /\ rret' = NilErr
              /\ UNCHANGED <<lastErr, attempt, delay>>
         ELSE /\ lastErr' = err
              /\ IF ~shouldRetry(err)
                   THEN /\ rpc' = "done"
                        /\ rret' = err
                        /\ UNCHANGED <<attempt, delay>>
                   ELSE IF attempt + 1 <= maxRetries
                          THEN /\ attempt' = attempt + 1
                               /\ delay' \in calculateBackoff(attempt + 1)
                               /\ rpc' = "sleep"
                               /\ UNCHANGED rret
                          ELSE /\ rpc' = "done"
                               /\ rret' = err
                               /\ attempt' = attempt + 1
                               /\ UNCHANGED delay
    /\ UNCHANGED <<maxRetries, rctx, delays>>

\* a wait that the context cannot cut short, as time.Sleep(delay) would be
RetrierWakeAnyway ==
    /\ UNCHANGED outsideRetrier
    /\ rpc = "sleep"
    /\ delays' = Append(delays, delay)
    /\ rpc' = "call"
    /\ UNCHANGED <<maxRetries, attempt, lastErr, rret, delay, rctx, outcomes>>

\* select: time.After(delay) fires.  A select takes the case that becomes
\* ready first: the timer's while the context is live; with the context
\* ended, ctx.Done() is ready before a timer of a positive delay is, and the
\* timer's case can only be taken (select chooses among ready cases at
\* random) when the delay is not positive
RetrierWake ==
    /\ UNCHANGED outsideRetrier
    /\ rpc = "sleep"
    /\ rctx = "live" \/ delay <= 0
    /\ delays' = Append(delays, delay)
    /\ rpc' = "call"
    /\ UNCHANGED <<maxRetries, attempt, lastErr, rret, delay, rctx, outcomes>>

\* select: ctx.Done() is ready
RetrierCancelled ==
    /\ UNCHANGED outsideRetrier
    /\ rpc = "sleep"
    /\ rctx # "live"
    /\ rpc' = "done"
    /\ rret' = CtxErr(rctx)
    /\ UNCHANGED <<maxRetries, attempt, lastErr, delay, rctx, outcomes, delays>>

\* The caller cancels the context, or its deadline passes
RetrierCtxEnds(how) ==
    /\ UNCHANGED outsideRetrier
    /\ rctx = "live"
    /\ rpc # "done"
    /\ rctx' = how
    /\ UNCHANGED <<maxRetries, attempt, rpc, lastErr, rret, delay, outcomes, delays>>

RetrierNext ==
    \/ RetrierEnter
    \/ \E err \in OperationResults : RetrierAttempt(err)
    \/ RetrierWake
    \/ RetrierCancelled
    \/ \E how \in {"canceled", "deadline"} : RetrierCtxEnds(how)

---------------------------------------------------------------------------
(* Sync job: src/internal/item/jobs/sync_job.go, and the run records of      *)
(* src/internal/item/repository/job_repository.go.  The database is taken  *)
(* to be up: a statement fails only as database/sql's ExecContext does,    *)
(* when its context has ended, or, for an upsert, on a row error.          *)

\* cities := []string{"Jakarta", "Bandung", "Surabaya"}
DefaultCities == 3
\* if processed%100 == 0
CancelCheckEvery == 100

ApiTypes == {"pokemon", "openweather", "other"}

JNil == [kind |-> "nil", n |-> 0]
JErr(kind, n) == [kind |-> kind, n |-> n]

\* ctx.Err() of the job context
JobCtxErr == JErr(IF jctx = "canceled" THEN "context.Canceled"
                  ELSE "context.DeadlineExceeded", 0)

\* db.ExecContext(ctx, ...): refused when ctx has ended
ExecContextFails == jctx # "live"

\* INSERT INTO sync_jobs (job_name, api_source, status, started_at)
\* VALUES (?, ?, 'running', ?)
CreateSyncJobRecord(rows) ==
    Append(rows, [api_source |-> apiType, status |-> "running",
                  items_processed |-> 0, items_succeeded |-> 0,
                  items_failed |-> 0, error_message |-> JNil])

\* UPDATE sync_jobs SET status = ?, ... WHERE id = ?
UpdateSyncJobRecord(rows, id, status, processed, succeeded, failed, err) ==
    [rows EXCEPT ![id] =
        [@ EXCEPT !.status = status, !.items_processed = processed,
                  !.items_succeeded = succeeded, !.items_failed = failed,
                  !.error_message = err]]

JobParked ==
    /\ apiType = "pokemon"
    /\ jctx = "live"
    /\ jpc = "start"
    /\ syncJobs = <<>>
    /\ jobID = 0
    /\ itemsProcessed = 0
    /\ itemsSucceeded = 0
    /\ itemsFailed = 0
    /\ lastError = JNil
    /\ pending = 0
    /\ cities = 0
    /\ jret = "none"

JobInit ==
    /\ apiType \in ApiTypes
    /\ jctx = "live"
    /\ jpc = "start"
    /\ syncJobs = <<>>
    /\ jobID = 0
    /\ itemsProcessed = 0
    /\ itemsSucceeded = 0
    /\ itemsFailed = 0
    /\ lastError = JNil
    /\ pending = 0
    /\ cities = 0
    /\ jret = "none"

\* Execute up to the switch: the Run Record is created (the API client of a
\* registered job is never nil, application.go:99-114)
JobCreate ==
    /\ UNCHANGED outsideJob
    /\ jpc = "start"
    /\ IF ExecContextFails
         THEN /\ jpc' = "done"
              /\ jret' = JobCtxErr
              /\ UNCHANGED <<syncJobs, jobID>>
         ELSE /\ syncJobs' = CreateSyncJobRecord(syncJobs)
              /\ jobID' = Len(syncJobs) + 1
              /\ jpc' = "dispatch"
              /\ UNCHANGED jret
    /\ UNCHANGED <<apiType, jctx, itemsProcessed, itemsSucceeded, itemsFailed,
                   lastError, pending, cities>>

\* the fetch of a pokemon run, were the items returned with an error upserted
JobFetchPokemonUsesPartial(ok, n) ==
    /\ UNCHANGED outsideJob
    /\ jpc = "dispatch"
    /\ apiType = "pokemon"
    /\ (jctx # "live") => ~ok
    /\ pending' = n
    /\ jpc' = "pokemonLoop"
    /\ lastError' = IF ok THEN lastError ELSE JErr("fetch", 0)
    /\ UNCHANGED <<apiType, jctx, syncJobs, jobID, itemsProcessed, itemsSucceeded,
                   itemsFailed, cities, jret>>

\* switch j.apiType, "pokemon": items, err = the strategy's fetch.  items is
\* the n records returned, with or without an error (FetchAllItems returns the
\* records of the pages fetched before a failing page together with the
\* error); with an error the routine returns before its loop
JobFetchPokemon(ok, n) ==
    /\ UNCHANGED outsideJob
    /\ jpc = "dispatch"
    /\ apiType = "pokemon"
    /\ (jctx # "live") => ~ok
    /\ pending' = n
    /\ IF ok
         THEN /\ jpc' = "pokemonLoop"
              /\ UNCHANGED lastError
         ELSE /\ lastError' = JErr("fetch", 0)
              /\ jpc' = "finalize"
    /\ UNCHANGED <<apiType, jctx, syncJobs, jobID, itemsProcessed, itemsSucceeded,
                   itemsFailed, cities, jret>>

\* the loop iteration, were lastErr set by the first failure only
JobUpsertPokemonKeepsFirst(ok) ==
    /\ UNCHANGED outsideJob
    /\ jpc = "pokemonLoop"
    /\ pending > 0
    /\ ExecContextFails => ~ok
    /\ itemsProcessed' = itemsProcessed + 1
    /\ itemsSucceeded' = IF ok THEN itemsSucceeded + 1 ELSE itemsSucceeded
    /\ itemsFailed' = IF ok THEN itemsFailed ELSE itemsFailed + 1
    /\ pending' = pending - 1
    /\ IF (itemsProcessed + 1) % CancelCheckEvery = 0 /\ jctx # "live"
         THEN /\ lastError' = JobCtxErr
              /\ jpc' = "finalize"
         ELSE /\ lastError' = IF ok \/ lastError # JNil THEN lastError
                              ELSE JErr("upsert", itemsProcessed + 1)
              /\ jpc' = IF pending = 1 THEN "finalize" ELSE "pokemonLoop"
    /\ UNCHANGED <<apiType, jctx, syncJobs, jobID, cities, jret>>

\* the loop iteration, were a failed upsert to end the loop
JobUpsertPokemonAborts(ok) ==
    /\ UNCHANGED outsideJob
    /\ jpc = "pokemonLoop"
    /\ pending > 0
    /\ ExecContextFails => ~ok
    /\ itemsProcessed' = itemsProcessed + 1
    /\ itemsSucceeded' = IF ok THEN itemsSucceeded + 1 ELSE itemsSucceeded
    /\ itemsFailed' = IF ok THEN itemsFailed ELSE itemsFailed + 1
    /\ pending' = pending - 1
    /\ IF (itemsProcessed + 1) % CancelCheckEvery = 0 /\ jctx # "live"
         THEN /\ lastError' = JobCtxErr
              /\ jpc' = "finalize"
         ELSE /\ lastError' = IF ok THEN lastError ELSE JErr("upsert", itemsProcessed + 1)
              /\ jpc' = IF pending = 1 \/ ~ok THEN "finalize" ELSE "pokemonLoop"
    /\ UNCHANGED <<apiType, jctx, syncJobs, jobID, cities, jret>>

\* one iteration of the loop over the fetched pokemon items
JobUpsertPokemon(ok) ==
    /\ UNCHANGED outsideJob
    /\ jpc = "pokemonLoop"
    /\ pending > 0
    /\ ExecContextFails => ~ok
    /\ itemsProcessed' = itemsProcessed + 1
    /\ itemsSucceeded' = IF ok THEN itemsSucceeded + 1 ELSE itemsSucceeded
    /\ itemsFailed' = IF ok THEN itemsFailed ELSE itemsFailed + 1
    /\ pending' = pending - 1
    /\ IF (itemsProcessed + 1) % CancelCheckEvery = 0 /\ jctx # "live"
         THEN /\ lastError' = JobCtxErr
              /\ jpc' = "finalize"
         ELSE /\ lastError' = IF ok THEN lastError ELSE JErr("upsert", itemsProcessed + 1)
              /\ jpc' = IF pending = 1 THEN "finalize" ELSE "pokemonLoop"
    /\ UNCHANGED <<apiType, jctx, syncJobs, jobID, cities, jret>>

\* the loop over the fetched pokemon items ends with nothing to upsert
JobPokemonEmpty ==
    /\ UNCHANGED outsideJob
    /\ jpc = "pokemonLoop"
    /\ pending = 0
    /\ jpc' = "finalize"
    /\ UNCHANGED <<apiType, jctx, syncJobs, jobID, itemsProcessed, itemsSucceeded,
                   itemsFailed, lastError, pending, cities, jret>>

\* switch j.apiType, "openweather": syncWeatherData starts on its city list
JobWeatherStart ==
    /\ UNCHANGED outsideJob
    /\ jpc = "dispatch"
    /\ apiType = "openweather"
    /\ cities' = DefaultCities
    /\ jpc' = "weatherCity"
    /\ UNCHANGED <<apiType, jctx, syncJobs, jobID, itemsProcessed, itemsSucceeded,
                   itemsFailed, lastError, pending, jret>>

\* one city: Fetch fails (failed++, continue) or returns its one item
JobFetchCity(ok) ==
    /\ UNCHANGED outsideJob
    /\ jpc = "weatherCity"
    /\ cities > 0
    /\ (jctx # "live") => ~ok
    /\ cities' = cities - 1
    /\ IF ok
         THEN /\ pending' = 1
              /\ jpc' = "weatherItems"
              /\ UNCHANGED <<itemsFailed, lastError>>
         ELSE /\ itemsFailed' = itemsFailed + 1
              /\ lastError' = JErr("fetch", cities)
              /\ jpc' = IF cities = 1 THEN "finalize" ELSE "weatherCity"
              /\ UNCHANGED pending
    /\ UNCHANGED <<apiType, jctx, syncJobs, jobID, itemsProcessed, itemsSucceeded, jret>>

\* the city's item is upserted, then the context is polled
JobUpsertWeather(ok) ==
    /\ UNCHANGED outsideJob
    /\ jpc = "weatherItems"
    /\ pending > 0
    /\ ExecContextFails => ~ok
    /\ itemsProcessed' = itemsProcessed + 1
    /\ itemsSucceeded' = IF ok THEN itemsSucceeded + 1 ELSE itemsSucceeded
    /\ itemsFailed' = IF ok THEN itemsFailed ELSE itemsFailed + 1
    /\ pending' = pending - 1
    /\ IF jctx # "live"
         THEN /\ lastError' = JobCtxErr
              /\ jpc' = "finalize"
         ELSE /\ lastError' = IF ok THEN lastError ELSE JErr("upsert", itemsProcessed + 1)
              /\ jpc' = IF cities = 0 THEN "finalize" ELSE "weatherCity"
    /\ UNCHANGED <<apiType, jctx, syncJobs, jobID, cities, jret>>

\* switch j.apiType, default
JobUnsupported ==
    /\ UNCHANGED outsideJob
    /\ jpc = "dispatch"
    /\ apiType \notin {"pokemon", "openweather"}
    /\ lastError' = JErr("unsupported API type", 0)
    /\ jpc' = "finalize"
    /\ UNCHANGED <<apiType, jctx, syncJobs, jobID, itemsProcessed, itemsSucceeded,
                   itemsFailed, pending, cities, jret>>

\* Execute returns lastError; the deferred function updates the Run Record
\* through the job context
JobFinalize ==
    /\ UNCHANGED outsideJob
    /\ jpc = "finalize"
    /\ syncJobs' =
         IF ExecContextFails THEN syncJobs
         ELSE UpdateSyncJobRecord(syncJobs, jobID,
                                  IF lastError # JNil THEN "failed" ELSE "completed",
                                  itemsProcessed, itemsSucceeded, itemsFailed, lastError)
    /\ jret' = lastError
    /\ jpc' = "done"
    /\ UNCHANGED <<apiType, jctx, jobID, itemsProcessed, itemsSucceeded, itemsFailed,
                   lastError, pending, cities>>

\* the job context is cancelled, or its timeout passes
JobCtxEnds(how) ==
    /\ UNCHANGED outsideJob
    /\ jctx = "live"
    /\ jpc # "done"
    /\ jctx' = how
    /\ UNCHANGED <<apiType, jpc, syncJobs, jobID, itemsProcessed, itemsSucceeded,
                   itemsFailed, lastError, pending, cities, jret>>

JobNext ==
    \/ JobCreate
    \/ \E ok \in BOOLEAN : \E n \in 0..MaxItems : JobFetchPokemon(ok, n)
    \/ \E ok \in BOOLEAN : JobUpsertPokemon(ok)
    \/ JobPokemonEmpty
    \/ JobWeatherStart
    \/ \E ok \in BOOLEAN : JobFetchCity(ok)
    \/ \E ok \in BOOLEAN : JobUpsertWeather(ok)
    \/ JobUnsupported
    \/ JobFinalize
    \/ \E how \in {"canceled", "deadline"} : JobCtxEnds(how)

---------------------------------------------------------------------------
(* Scheduler: package worker, src/unnamed/part_010; and the application     *)
(* that builds it, src/internal/infrastructure/server/application.go        *)

\* The calls of Start and of Stop made on the scheduler
StartCalls == {1, 2}
StopCalls == {1, 2}

\* Names a job may be registered under when the scheduler is used on its own
JobNames == {"background-sync", "other-sync"}

\* availableAPIs := []string{"pokemon", "openweather"}
AvailableAPIs == <<"pokemon", "openweather">>

\* jobs.NewSyncJob("background-sync", ...)
SyncJobName == "background-sync"

NoJobs == [n \in {} |-> "none"]

\* s.jobs[job.Name()] = job
RegisterJob(reg, name, kind) ==
    [n \in (DOMAIN reg) \cup {name} |-> IF n = name THEN kind ELSE reg[n]]

\* api.NewAPIClient(apiType, ...) returns an error for an unknown type only
NewAPIClientFails(apiType_) == apiType_ \notin {"pokemon", "openweather"}

\* time.NewTicker(d): nothing is in ticker.C until d has elapsed
NewTickerEarly == TRUE

NewTicker == FALSE

\* go func(j Job) {...}(job): starting a goroutine never waits for another
GoInline == \A i \in 1..Len(execs) : execs[i].st # "running"

Go == TRUE

\* s.wg.Wait() returns when the counter is zero
WaitNoWait == TRUE

Wait == wg = 0

Running == {i \in 1..Len(execs) : execs[i].st = "running"}

SchedRest ==
    /\ running = FALSE
    /\ stopChan = "open"
    /\ wg = 0
    /\ sctx = "live"
    /\ ticker = [c \in StartCalls |-> FALSE]
    /\ toLaunch = [c \in StartCalls |-> {}]
    /\ execs = <<>>
    /\ crashed = "no"
    /\ apiIdx = 1
    /\ appStarted = FALSE
    /\ appShut = FALSE
    /\ intervals = [c \in StartCalls |-> 0]
    /\ ticksTaken = [c \in StartCalls |-> 0]
    /\ inflightAtStop = [d \in StopCalls |-> 0]
    /\ launchedAtStop = [d \in StopCalls |-> 0]
    /\ foundRunning = [d \in StopCalls |-> FALSE]
    /\ lastCall = "none"

\* NewScheduler, used on its own: any caller may register, start and stop
SchedInit ==
    /\ enabled \in BOOLEAN
    /\ jobs = NoJobs
    /\ spc = [c \in StartCalls |-> IF c = 1 THEN "idle" ELSE "none"]
    /\ stpc = [d \in StopCalls |-> "idle"]
    /\ appPc = "lib"
    /\ SchedRest

\* NewScheduler inside NewApplication: Start and Stop are called by
\* Application.Start and Application.Shutdown only
AppInit ==
    /\ enabled \in BOOLEAN
    /\ jobs = NoJobs
    /\ spc = [c \in StartCalls |-> "none"]
    /\ stpc = [d \in StopCalls |-> "none"]
    /\ appPc = "new"
    /\ SchedRest

SchedParked ==
    /\ enabled = FALSE
    /\ jobs = NoJobs
    /\ spc = [c \in StartCalls |-> "none"]
    /\ stpc = [d \in StopCalls |-> "none"]
    /\ appPc = "lib"
    /\ SchedRest

\* RegisterJob called on a scheduler used on its own; as in NewApplication,
\* the jobs are registered before Start is called
SchedRegisterJob(name) ==
    /\ UNCHANGED outsideSched
    /\ crashed = "no"
    /\ appPc = "lib"
    /\ \A c \in StartCalls : spc[c] \in {"idle", "none"}
    /\ jobs' = RegisterJob(jobs, name, "job")
    /\ UNCHANGED <<enabled, running, stopChan, wg, sctx, spc, ticker, toLaunch,
                   execs, stpc, crashed, appPc, apiIdx, appStarted, appShut,
                   intervals, ticksTaken, inflightAtStop, launchedAtStop,
                   foundRunning,
                   lastCall>>

\* Start without the check of s.config.Enabled
SchedStartWhenDisabled(c) ==
    /\ UNCHANGED outsideSched
    /\ crashed = "no"
    /\ spc[c] = "idle"
    /\ \A b \in StartCalls : b < c => spc[b] # "idle"
    /\ lastCall' = "start"
    /\ IF running
         THEN /\ spc' = [spc EXCEPT ![c] = "returned"]
              /\ UNCHANGED <<running, ticker>>
         ELSE /\ running' = TRUE
              /\ IF FALSE
                   THEN /\ spc' = [spc EXCEPT ![c] = "returned"]
                        /\ UNCHANGED ticker
                   ELSE /\ spc' = [spc EXCEPT ![c] = "select"]
                        /\ ticker' = [ticker EXCEPT ![c] = NewTicker]
    /\ UNCHANGED <<enabled, jobs, stopChan, wg, sctx, toLaunch, execs, stpc, crashed,
                   appPc, apiIdx, appStarted, appShut, intervals, ticksTaken,
                   inflightAtStop, launchedAtStop, foundRunning>>

\* Start up to the first select (the Start calls are numbered in the order
\* in which they take the lock)
SchedStart(c) ==
    /\ UNCHANGED outsideSched
    /\ crashed = "no"
    /\ spc[c] = "idle"
    /\ \A b \in StartCalls : b < c => spc[b] # "idle"
    /\ lastCall' = "start"
    /\ IF running
         THEN /\ spc' = [spc EXCEPT ![c] = "returned"]
              /\ UNCHANGED <<running, ticker>>
         ELSE /\ running' = TRUE
              /\ IF ~enabled
                   THEN /\ spc' = [spc EXCEPT ![c] = "returned"]
                        /\ UNCHANGED ticker
                   ELSE /\ spc' = [spc EXCEPT ![c] = "select"]
                        /\ ticker' = [ticker EXCEPT ![c] = NewTicker]
    /\ UNCHANGED <<enabled, jobs, stopChan, wg, sctx, toLaunch, execs, stpc, crashed,
                   appPc, apiIdx, appStarted, appShut, intervals, ticksTaken,
                   inflightAtStop, launchedAtStop, foundRunning>>

\* SyncInterval elapses on the ticker of a Start call that has not returned;
\* ticker.C holds one tick at most
SchedInterval(c) ==
    /\ UNCHANGED outsideSched
    /\ crashed = "no"
    /\ spc[c] \in {"select", "launch"}
    /\ intervals[c] < MaxTicks
    /\ intervals' = [intervals EXCEPT ![c] = @ + 1]
    /\ ticker' = [ticker EXCEPT ![c] = TRUE]
    /\ UNCHANGED <<enabled, jobs, running, stopChan, wg, sctx, spc, toLaunch, execs,
                   stpc, crashed, appPc, apiIdx, appStarted, appShut, ticksTaken,
                   inflightAtStop, launchedAtStop, foundRunning,
                   lastCall>>

\* select, case <-ctx.Done()
SchedSelectCtxDone(c) ==
    /\ UNCHANGED outsideSched
    /\ crashed = "no"
    /\ spc[c] = "select"
    /\ sctx # "live"
    /\ spc' = [spc EXCEPT ![c] = "returned"]
    /\ UNCHANGED <<enabled, jobs, running, stopChan, wg, sctx, ticker, toLaunch,
                   execs, stpc, crashed, appPc, apiIdx, appStarted, appShut,
                   intervals, ticksTaken, inflightAtStop, launchedAtStop,
                   foundRunning,
                   lastCall>>

\* select, case <-s.stopChan
SchedSelectStop(c) ==
    /\ UNCHANGED outsideSched
    /\ crashed = "no"
    /\ spc[c] = "select"
    /\ stopChan = "closed"
    /\ spc' = [spc EXCEPT ![c] = "returned"]
    /\ UNCHANGED <<enabled, jobs, running, stopChan, wg, sctx, ticker, toLaunch,
                   execs, stpc, crashed, appPc, apiIdx, appStarted, appShut,
                   intervals, ticksTaken, inflightAtStop, launchedAtStop,
                   foundRunning,
                   lastCall>>

\* select, case <-ticker.C: executeJobs copies the registry under the lock
\* (a tick is taken while the model has room for its executions)
SchedTick(c) ==
    /\ UNCHANGED outsideSched
    /\ crashed = "no"
    /\ spc[c] = "select"
    /\ ticker[c]
    /\ Len(execs) + Cardinality(DOMAIN jobs) <= MaxExecs
    /\ ticker' = [ticker EXCEPT ![c] = FALSE]
    /\ ticksTaken' = [ticksTaken EXCEPT ![c] = @ + 1]
    /\ toLaunch' = [toLaunch EXCEPT ![c] = {[job |-> n, kind |-> jobs[n]] : n \in DOMAIN jobs}]
    /\ spc' = [spc EXCEPT ![c] = IF DOMAIN jobs = {} THEN "select" ELSE "launch"]
    /\ UNCHANGED <<enabled, jobs, running, stopChan, wg, sctx, execs, stpc, crashed,
                   appPc, apiIdx, appStarted, appShut, intervals, inflightAtStop, launchedAtStop, foundRunning,
                   lastCall>>

\* executeJobs, one iteration of its loop: s.wg.Add(1); go func(j Job) {...}(job)
SchedLaunch(c, j) ==
    /\ UNCHANGED outsideSched
    /\ crashed = "no"
    /\ spc[c] = "launch"
    /\ j \in toLaunch[c]
    /\ Go
    /\ wg' = wg + 1
    /\ execs' = Append(execs, [job |-> j.job, kind |-> j.kind, by |-> c,
                               tick |-> ticksTaken[c], st |-> "running",
                               jobCtx |-> "live"])
    /\ toLaunch' = [toLaunch EXCEPT ![c] = @ \ {j}]
    /\ spc' = [spc EXCEPT ![c] = IF toLaunch[c] = {j} THEN "select" ELSE "launch"]
    /\ UNCHANGED <<enabled, jobs, running, stopChan, sctx, ticker, stpc, crashed,
                   appPc, apiIdx, appStarted, appShut, intervals, ticksTaken,
                   inflightAtStop, launchedAtStop, foundRunning,
                   lastCall>>

\* executeJob: job.Execute returns (nil or an error), the outcome is logged,
\* the goroutine's deferred s.wg.Done() runs
ExecReturns(i, outcome) ==
    /\ UNCHANGED outsideSched
    /\ crashed = "no"
    /\ i \in Running
    /\ execs' = [execs EXCEPT ![i].st = outcome]
    /\ wg' = wg - 1
    /\ UNCHANGED <<enabled, jobs, running, stopChan, sctx, spc, ticker, toLaunch,
                   stpc, crashed, appPc, apiIdx, appStarted, appShut, intervals,
                   ticksTaken, inflightAtStop, launchedAtStop, foundRunning,
                   lastCall>>

\* executeJob, were the timeout to end the context Start was given
ExecTimesOutSharedCtx(i) ==
    /\ UNCHANGED outsideSched
    /\ crashed = "no"
    /\ i \in Running
    /\ execs[i].jobCtx = "live"
    /\ execs' = [execs EXCEPT ![i].jobCtx = "deadline"]
    /\ sctx' = "canceled"
    /\ UNCHANGED <<enabled, jobs, running, stopChan, wg, spc, ticker, toLaunch,
                   stpc, crashed, appPc, apiIdx, appStarted, appShut, intervals,
                   ticksTaken, inflightAtStop, launchedAtStop, foundRunning,
                   lastCall>>

\* executeJob: jobCtx, cancel := context.WithTimeout(ctx, s.config.JobTimeout);
\* JobTimeout passes while job.Execute(jobCtx) runs, and jobCtx, the child
\* context of this execution alone, is done
ExecTimesOut(i) ==
    /\ UNCHANGED outsideSched
    /\ crashed = "no"
    /\ i \in Running
    /\ execs[i].jobCtx = "live"
    /\ execs' = [execs EXCEPT ![i].jobCtx = "deadline"]
    /\ UNCHANGED <<enabled, jobs, running, stopChan, wg, sctx, spc, ticker, toLaunch,
                   stpc, crashed, appPc, apiIdx, appStarted, appShut, intervals,
                   ticksTaken, inflightAtStop, launchedAtStop, foundRunning,
                   lastCall>>

\* jobCtx.Done() of execution i: its own deadline, or the parent context
ExecCtxDone(i) == execs[i].jobCtx = "deadline" \/ sctx # "live"

\* executeJob: job.Execute panics.  Neither executeJob nor the goroutine's
\* function calls recover(): the deferred calls run and the Go runtime ends
\* the process.
ExecPanics(i) ==
    /\ UNCHANGED outsideSched
    /\ crashed = "no"
    /\ i \in Running
    /\ execs' = [execs EXCEPT ![i].st = "panicked"]
    /\ wg' = wg - 1
    /\ crashed' = "panic in job"
    /\ UNCHANGED <<enabled, jobs, running, stopChan, sctx, spc, ticker, toLaunch,
                   stpc, appPc, apiIdx, appStarted, appShut, intervals,
                   ticksTaken, inflightAtStop, launchedAtStop, foundRunning,
                   lastCall>>

\* Stop without its test of s.running
SchedStopNoGuard(d) ==
    /\ UNCHANGED outsideSched
    /\ crashed = "no"
    /\ stpc[d] = "idle"
    /\ \A e \in StopCalls : e < d => stpc[e] # "idle"
    /\ inflightAtStop' = [inflightAtStop EXCEPT ![d] = Cardinality(Running)]
    /\ launchedAtStop' = [launchedAtStop EXCEPT ![d] = Len(execs)]
    /\ foundRunning' = [foundRunning EXCEPT ![d] = running]
    /\ lastCall' = "stop"
    /\ running' = FALSE
    /\ stpc' = [stpc EXCEPT ![d] = "close"]
    /\ UNCHANGED <<enabled, jobs, stopChan, wg, sctx, spc, ticker, toLaunch, execs,
                   crashed, appPc, apiIdx, appStarted, appShut, intervals,
                   ticksTaken>>

\* Stop, the part under the lock (the Stop calls are numbered in the order
\* in which they take the lock)
SchedStop(d) ==
    /\ UNCHANGED outsideSched
    /\ crashed = "no"
    /\ stpc[d] = "idle"
    /\ \A e \in StopCalls : e < d => stpc[e] # "idle"
    /\ inflightAtStop' = [inflightAtStop EXCEPT ![d] = Cardinality(Running)]
    /\ launchedAtStop' = [launchedAtStop EXCEPT ![d] = Len(execs)]
    /\ foundRunning' = [foundRunning EXCEPT ![d] = running]
    /\ lastCall' = "stop"
    /\ IF ~running
         THEN /\ stpc' = [stpc EXCEPT ![d] = "returned"]
              /\ UNCHANGED running
         ELSE /\ running' = FALSE
              /\ stpc' = [stpc EXCEPT ![d] = "close"]
    /\ UNCHANGED <<enabled, jobs, stopChan, wg, sctx, spc, ticker, toLaunch, execs,
                   crashed, appPc, apiIdx, appStarted, appShut, intervals,
                   ticksTaken>>

\* Stop: close(s.stopChan); closing a closed channel panics
SchedStopClose(d) ==
    /\ UNCHANGED outsideSched
    /\ crashed = "no"
    /\ stpc[d] = "close"
    /\ IF stopChan = "closed"
         THEN /\ stpc' = [stpc EXCEPT ![d] = "panicked"]
              /\ crashed' = "close of closed channel"
              /\ UNCHANGED stopChan
         ELSE /\ stopChan' = "closed"
              /\ stpc' = [stpc EXCEPT ![d] = "wait"]
              /\ UNCHANGED crashed
    /\ UNCHANGED <<enabled, jobs, running, wg, sctx, spc, ticker, toLaunch, execs,
                   appPc, apiIdx, appStarted, appShut, intervals, ticksTaken,
                   inflightAtStop, launchedAtStop, foundRunning,
                   lastCall>>

\* Stop: s.wg.Wait() returns, and so does Stop
SchedStopWait(d) ==
    /\ UNCHANGED outsideSched
    /\ crashed = "no"
    /\ stpc[d] = "wait"
    /\ Wait
    /\ stpc' = [stpc EXCEPT ![d] = "returned"]
    /\ UNCHANGED <<enabled, jobs, running, stopChan, wg, sctx, spc, ticker, toLaunch,
                   execs, crashed, appPc, apiIdx, appStarted, appShut, intervals,
                   ticksTaken, inflightAtStop, launchedAtStop, foundRunning,
                   lastCall>>

\* The owner of the context passed to Start cancels it
SchedCtxCancel ==
    /\ UNCHANGED outsideSched
    /\ crashed = "no"
    /\ appPc = "lib"
    /\ sctx = "live"
    /\ sctx' = "canceled"
    /\ UNCHANGED <<enabled, jobs, running, stopChan, wg, spc, ticker, toLaunch,
                   execs, stpc, crashed, appPc, apiIdx, appStarted, appShut,
                   intervals, ticksTaken, inflightAtStop, launchedAtStop,
                   foundRunning,
                   lastCall>>

\* NewApplication: if cfg.Worker.Enabled, one iteration of the loop over
\* availableAPIs creates a client and a SyncJob named "background-sync" and
\* registers it; otherwise nothing is registered
AppRegisterJobs ==
    /\ UNCHANGED outsideSched
    /\ appPc = "new"
    /\ IF ~enabled
         THEN /\ appPc' = "built"
              /\ UNCHANGED <<jobs, apiIdx>>
         ELSE /\ jobs' = IF NewAPIClientFails(AvailableAPIs[apiIdx]) THEN jobs
                         ELSE RegisterJob(jobs, SyncJobName, AvailableAPIs[apiIdx])
              /\ apiIdx' = apiIdx + 1
              /\ appPc' = IF apiIdx = Len(AvailableAPIs) THEN "built" ELSE "new"
    /\ UNCHANGED <<enabled, running, stopChan, wg, sctx, spc, ticker, toLaunch,
                   execs, stpc, crashed, appStarted, appShut, intervals,
                   ticksTaken, inflightAtStop, launchedAtStop, foundRunning,
                   lastCall>>

\* Application.Start: with the worker enabled, a goroutine calls
\* a.scheduler.Start(a.ctx)
AppStart ==
    /\ UNCHANGED outsideSched
    /\ crashed = "no"
    /\ appPc = "built"
    /\ ~appStarted
    /\ appStarted' = TRUE
    /\ spc' = IF enabled THEN [spc EXCEPT ![1] = "idle"] ELSE spc
    /\ UNCHANGED <<enabled, jobs, running, stopChan, wg, sctx, ticker, toLaunch,
                   execs, stpc, crashed, appPc, apiIdx, appShut, intervals,
                   ticksTaken, inflightAtStop, launchedAtStop, foundRunning,
                   lastCall>>

\* Application.Shutdown: a.cancel(), then a.scheduler.Stop()
AppShutdown ==
    /\ UNCHANGED outsideSched
    /\ crashed = "no"
    /\ appPc = "built"
    /\ ~appShut
    /\ appShut' = TRUE
    /\ sctx' = "canceled"
    /\ stpc' = [stpc EXCEPT ![1] = "idle"]
    /\ UNCHANGED <<enabled, jobs, running, stopChan, wg, spc, ticker, toLaunch,
                   execs, crashed, appPc, apiIdx, appStarted, intervals,
                   ticksTaken, inflightAtStop, launchedAtStop, foundRunning,
                   lastCall>>

SchedCore ==
    \/ \E c \in StartCalls : SchedStart(c)
    \/ \E c \in StartCalls : SchedInterval(c)
    \/ \E c \in StartCalls : SchedSelectCtxDone(c)
    \/ \E c \in StartCalls : SchedSelectStop(c)
    \/ \E c \in StartCalls : SchedTick(c)
    \/ \E c \in StartCalls : \E j \in toLaunch[c] : SchedLaunch(c, j)
    \/ \E i \in Running : \E outcome \in {"completed", "failed"} : ExecReturns(i, outcome)
    \/ \E i \in Running : ExecPanics(i)
    \/ \E d \in StopCalls : SchedStop(d)
    \/ \E d \in StopCalls : SchedStopClose(d)
    \/ \E d \in StopCalls : SchedStopWait(d)

SchedNext ==
    \/ SchedCore
    \/ \E n \in JobNames : SchedRegisterJob(n)
    \/ SchedCtxCancel

AppNext ==
    \/ SchedCore
    \/ AppRegisterJobs
    \/ AppStart
    \/ AppShutdown

---------------------------------------------------------------------------
(* Pagination: PokemonSyncStrategy.FetchAllItems (pokemon_sync.go:22-143)

   The source serves its pages one per call of Fetch, in order, and an empty
   page once they are used up, as the client of the test does
   (pokemon_sync_test.go:17-26). A page is its number of records and the
   continuation cursor of its response. *)

\* limit := 20 (pokemon_sync.go:26), and the limit of a cursor without one
DefaultLimit == 20

NoCursor == [kind |-> "none"]

\* a string url.Parse rejects
BadCursor == [kind |-> "unparsable"]

\* the offsets a cursor names: that of a second page
CursorOffsets == {MaxPageLimit}

\* what query.Get(key) finds in a URL: nothing (the key is absent or empty),
\* a decimal numeral, or other text
QueryValues(S) ==
    {[kind |-> "absent"], [kind |-> "text"]} \cup [kind : {"number"}, value : S]

\* "...?offset=o&limit=l"
Cursors ==
    {NoCursor, BadCursor}
      \cup [kind : {"url"}, offset : QueryValues(CursorOffsets),
                            limit : QueryValues(1..MaxPageLimit)]

Pages == [size : 1..MaxPageLimit, next : Cursors]

\* PokemonClient puts api_source, url and raw_data (a PokemonItem struct) in
\* ExtendInfo; a MetadataClient puts the response's "next" under
\* response_metadata, where extractNextURL looks for it
PageClients == {"PokemonClient", "MetadataClient"}

\* the records of page i: (page, position)
PageItems(i, size) == [j \in 1..size |-> <<i, j>>]

\* what apiClient.Fetch returns at call number i
ServedPage(i) ==
    IF i <= Len(pages) THEN pages[i] ELSE [size |-> 0, next |-> NoCursor]

\* extractNextURL: the cursor the items of the page show
extractNextURL(page) ==
    IF page.size = 0 THEN NoCursor
    ELSE IF pclient = "MetadataClient" THEN page.next
    ELSE NoCursor

\* strconv.Atoi: <<value, err>>
Atoi(q) == IF q.kind = "number" THEN <<q.value, FALSE>> ELSE <<0, TRUE>>

\* parseNextURL that leaves limit at its zero value when the URL has none
parseNextURLNoDefault(c) ==
    IF c.kind = "unparsable" THEN <<0, DefaultLimit, TRUE>>
    ELSE <<IF c.offset.kind = "absent" \/ Atoi(c.offset)[2]
             THEN 0 ELSE Atoi(c.offset)[1],
           IF c.limit.kind = "absent" THEN 0
           ELSE IF Atoi(c.limit)[2] THEN DefaultLimit ELSE Atoi(c.limit)[1],
           FALSE>>

\* parseNextURL: <<offset, limit, err>>. offset is 0 without the parameter
\* and when Atoi fails; limit is 20 without the parameter and when Atoi
\* fails; err is the error of url.Parse alone
parseNextURL(c) ==
    IF c.kind = "unparsable" THEN <<0, DefaultLimit, TRUE>>
    ELSE <<IF c.offset.kind = "absent" \/ Atoi(c.offset)[2]
             THEN 0 ELSE Atoi(c.offset)[1],
           IF c.limit.kind = "absent" \/ Atoi(c.limit)[2]
             THEN DefaultLimit ELSE Atoi(c.limit)[1],
           FALSE>>

\* the locals after lines 23-35
PageInit ==
    /\ pclient \in PageClients
    /\ pages \in UNION {[1..n -> Pages] : n \in 0..MaxPages}
    /\ reqLimit \in 0..MaxPageLimit
    /\ poffset = 0
    /\ plimit = (IF reqLimit = 0 THEN DefaultLimit ELSE reqLimit)
    /\ allItems = <<>>
    /\ fetchCalls = 0
    /\ ppc = "loop"
    /\ perr = FALSE
    /\ fetched = <<>>

\* one iteration of the loop whose Fetch succeeds (lines 37-73)
PageFetch ==
    /\ UNCHANGED outsidePage
    /\ ppc = "loop"
    /\ LET i == fetchCalls + 1
           page == ServedPage(i)
           next == extractNextURL(page)
           parsed == parseNextURL(next)
           newLimit == IF next.kind = "none" \/ parsed[3] THEN plimit
                       ELSE parsed[2]
       IN  /\ fetchCalls' = i
           /\ fetched' = Append(fetched,
                                [limit |-> plimit, size |-> page.size,
                                 next |-> page.next])
           /\ allItems' = allItems \o PageItems(i, page.size)
           /\ IF page.size = 0 \/ next.kind = "none"
                THEN /\ ppc' = "done"
                     /\ UNCHANGED <<poffset, plimit>>
                ELSE /\ poffset' = (IF parsed[3] THEN poffset + plimit
                                    ELSE parsed[1])
                     /\ plimit' = newLimit
                     /\ ppc' = (IF page.size < newLimit THEN "done"
                                ELSE "loop")
    /\ UNCHANGED <<pclient, pages, reqLimit, perr>>

\* an iteration whose Fetch fails: return allItems, err (lines 43-46)
PageFetchFails ==
    /\ UNCHANGED outsidePage
    /\ ppc = "loop"
    /\ fetchCalls' = fetchCalls + 1
    /\ perr' = TRUE
    /\ ppc' = "done"
    /\ UNCHANGED <<pclient, pages, reqLimit, poffset, plimit, allItems,
                   fetched>>

PageNext == PageFetch \/ PageFetchFails

\* FetchAllItems over a source of one page, with a client that shows the
\* cursor: the first iteration parses it
ParseInit ==
    /\ pclient = "MetadataClient"
    /\ pages \in [1..1 -> Pages]
    /\ reqLimit \in 0..MaxPageLimit
    /\ poffset = 0
    /\ plimit = (IF reqLimit = 0 THEN DefaultLimit ELSE reqLimit)
    /\ allItems = <<>>
    /\ fetchCalls = 0
    /\ ppc = "loop"
    /\ perr = FALSE
    /\ fetched = <<>>

---------------------------------------------------------------------------
(* The items table and ItemRepository (Save, UpsertWithHash)

   A row is the columns the two statements write. The table is kept by the
   columns of UNIQUE KEY uk_external_api_source (external_id, api_source):
   for each pair, the rows that have it, in order of insertion. The key makes
   an INSERT of a pair that is already there fail, or take the ON DUPLICATE
   KEY UPDATE branch when the statement has one. *)

ExternalIDs == {1, 2}
APISources == {"pokemon", "openweather"}
Titles == {"bulbasaur", "ivysaur"}
\* the JSON of ExtendInfo
ExtendInfos == {"{}", "{\"weight\":69}"}

\* what Save is called with: an item with a description
SavedTitle == "bulbasaur"
SavedDescription == "seed"
SavedExtendInfo == "{}"

\* NULL of a nullable column
Null == "NULL"
\* what another writer of the table leaves in last_sync_error
SyncErrors == {"timeout"}

\* a content hash computed from the title alone
calculateContentHashOfTitle(title, extendInfoJSON) == <<title>>

\* calculateContentHash: SHA-256 of "title:json", taken as free of
\* collisions, so the hash is the content it was computed from
calculateContentHash(title, extendInfoJSON) == <<title, extendInfoJSON>>

\* content_hash VARCHAR(64) NOT NULL DEFAULT ''
DefaultContentHash == <<>>
\* sync_attempts INT NOT NULL DEFAULT 0
DefaultSyncAttempts == 0

ItemKeys == ExternalIDs \X APISources

\* CREATE TABLE items: no rows
EmptyTable == [k \in ItemKeys |-> <<>>]

\* no call of UpsertWithHash yet
NoUpserts ==
    [k \in ItemKeys |->
        [n |-> 0, title |-> "", extend_info |-> "", same |-> FALSE,
         cleared |-> FALSE]]

RECURSIVE UpsertsIn(_, _)
\* the number of UpsertWithHash calls for the pairs of S
UpsertsIn(u, S) ==
    IF S = {} THEN 0
    ELSE LET k == CHOOSE x \in S : TRUE
         IN  u[k].n + UpsertsIn(u, S \ {k})

\* the rows whose (external_id, api_source) is (id, source)
RowsOf(tbl, id, source) == tbl[<<id, source>>]

\* the history after one more call: its content, whether the call before
\* it had the same, and whether it found a row with an error recorded
Upserted(u, tbl, id, source, title, extendInfo) ==
    [u EXCEPT ![<<id, source>>] =
        [n |-> @.n + 1, title |-> title, extend_info |-> extendInfo,
         same |-> @.n > 0 /\ @.title = title /\ @.extend_info = extendInfo,
         cleared |-> \E i \in 1..Len(RowsOf(tbl, id, source)) :
                        RowsOf(tbl, id, source)[i].last_sync_error # Null]]

\* INSERT INTO items (title, description, external_id, api_source,
\* extend_info, ...): the tracking columns take their defaults. A pair that
\* is already there violates the unique key and Save returns the error.
ItemsSave(id, source, title, description, extendInfo) ==
    /\ UNCHANGED outsideItems
    /\ RowsOf(items, id, source) = <<>>
    /\ items' = [items EXCEPT ![<<id, source>>] =
                    <<[external_id |-> id, api_source |-> source,
                       title |-> title, description |-> description,
                       extend_info |-> extendInfo,
                       content_hash |-> DefaultContentHash,
                       sync_attempts |-> DefaultSyncAttempts,
                       last_sync_error |-> Null]>>]
    /\ UNCHANGED ups

\* the row VALUES(...) of UpsertWithHash: description "", sync_attempts 1
UpsertValues(id, source, title, extendInfo) ==
    [external_id |-> id, api_source |-> source, title |-> title,
     description |-> "", extend_info |-> extendInfo,
     content_hash |-> calculateContentHash(title, extendInfo),
     sync_attempts |-> 1, last_sync_error |-> Null]

\* the same statement with content_hash assigned before extend_info
OnDuplicateKeyUpdateHashFirst(row, new) ==
    LET r1 == [row EXCEPT !.title = new.title]
        r2 == [r1 EXCEPT !.description = new.description]
        r3 == [r2 EXCEPT !.content_hash = new.content_hash]
        r4 == [r3 EXCEPT !.extend_info =
                  IF r3.content_hash # new.content_hash
                    THEN new.extend_info ELSE r3.extend_info]
        r5 == [r4 EXCEPT !.sync_attempts = r4.sync_attempts + 1]
    IN  [r5 EXCEPT !.last_sync_error = Null]

\* ON DUPLICATE KEY UPDATE: the assignments in their order, each one seeing
\* the columns as the ones before it left them
OnDuplicateKeyUpdate(row, new) ==
    LET r1 == [row EXCEPT !.title = new.title]
        r2 == [r1 EXCEPT !.description = new.description]
        r3 == [r2 EXCEPT !.extend_info =
                  IF r2.content_hash # new.content_hash
                    THEN new.extend_info ELSE r2.extend_info]
        r4 == [r3 EXCEPT !.content_hash = new.content_hash]
        r5 == [r4 EXCEPT !.sync_attempts = r4.sync_attempts + 1]
    IN  [r5 EXCEPT !.last_sync_error = Null]

\* UpsertWithHash as a plain INSERT into a table without the unique key
ItemsUpsertInsertOnly(id, source, title, extendInfo) ==
    /\ UNCHANGED outsideItems
    /\ UpsertsIn(ups, ItemKeys) < MaxUpserts
    /\ items' = [items EXCEPT ![<<id, source>>] =
                    Append(@, UpsertValues(id, source, title, extendInfo))]
    /\ ups' = Upserted(ups, items, id, source, title, extendInfo)

\* UpsertWithHash(ctx, apiSource, externalItem)
ItemsUpsert(id, source, title, extendInfo) ==
    /\ UNCHANGED outsideItems
    /\ UpsertsIn(ups, ItemKeys) < MaxUpserts
    /\ LET new == UpsertValues(id, source, title, extendInfo)
       IN  items' =
             [items EXCEPT ![<<id, source>>] =
                 IF @ = <<>>
                   THEN <<new>>
                   ELSE [i \in 1..Len(@) |-> OnDuplicateKeyUpdate(@[i], new)]]
    /\ ups' = Upserted(ups, items, id, source, title, extendInfo)

\* last_sync_error TEXT: no statement of the repository writes a value to
\* it; a writer of the table other than ItemRepository records an error
ItemsSyncErrorRecorded(id, source, e) ==
    /\ UNCHANGED outsideItems
    /\ RowsOf(items, id, source) # <<>>
    /\ \A i \in 1..Len(RowsOf(items, id, source)) :
          RowsOf(items, id, source)[i].last_sync_error = Null
    /\ items' = [items EXCEPT ![<<id, source>>] =
                    [i \in 1..Len(@) |-> [@[i] EXCEPT !.last_sync_error = e]]]
    /\ UNCHANGED ups

ItemsInit ==
    /\ items = EmptyTable
    /\ ups = NoUpserts

ItemsSaves ==
    \E id \in ExternalIDs, source \in APISources :
        ItemsSave(id, source, SavedTitle, SavedDescription, SavedExtendInfo)

ItemsUpserts ==
    \E id \in ExternalIDs, source \in APISources, title \in Titles,
       extendInfo \in ExtendInfos :
        ItemsUpsert(id, source, title, extendInfo)

ItemsSyncErrors ==
    \E id \in ExternalIDs, source \in APISources, e \in SyncErrors :
        ItemsSyncErrorRecorded(id, source, e)

ItemsNext == ItemsSaves \/ ItemsUpserts \/ ItemsSyncErrors

---------------------------------------------------------------------------
(* Pagination and the items table when another component runs *)

PageParked ==
    /\ pclient = "PokemonClient"
    /\ pages = <<>>
    /\ reqLimit = 0
    /\ poffset = 0
    /\ plimit = 0
    /\ allItems = <<>>
    /\ fetchCalls = 0
    /\ ppc = "done"
    /\ perr = FALSE
    /\ fetched = <<>>

ItemsParked ==
    /\ items = EmptyTable
    /\ ups = NoUpserts

---------------------------------------------------------------------------
(* Breaker registry: BreakerManager.GetBreaker (breaker.go:168-188)

   NumGetters goroutines call GetBreaker, each time with a name of its
   choice. A breaker is known by the serial number NewCircuitBreaker gave it
   among the breakers of its name. bm.mu is a sync.RWMutex: RLock waits while
   a goroutine holds it for writing, Lock waits while any goroutine holds it. *)

Getters == 1..NumGetters
BreakerNames == {"pokemon", "openweather"}

\* no goroutine in GetBreaker
MgrRest ==
    /\ mu = [readers |-> {}, writer |-> 0]
    /\ gpc = [g \in Getters |-> "idle"]
    /\ gname = [g \in Getters |-> "pokemon"]
    /\ gret = [g \in Getters |-> 0]
    /\ missed = [g \in Getters |-> FALSE]

\* NewBreakerManager: breakers: make(map[string]*CircuitBreaker)
NewBreakerManager ==
    /\ breakers = [n \in BreakerNames |-> 0]
    /\ created = [n \in BreakerNames |-> 0]

MgrInit == NewBreakerManager /\ MgrRest

\* GetBreaker(name) is called: bm.mu.RLock()
GetRLock(g, name) ==
    /\ UNCHANGED outsideMgr
    /\ gpc[g] \in {"idle", "done"}
    /\ mu.writer = 0
    /\ mu' = [mu EXCEPT !.readers = @ \cup {g}]
    /\ gpc' = [gpc EXCEPT ![g] = "rlocked"]
    /\ gname' = [gname EXCEPT ![g] = name]
    /\ gret' = [gret EXCEPT ![g] = 0]
    /\ missed' = [missed EXCEPT ![g] = FALSE]
    /\ UNCHANGED <<breakers, created>>

\* the lookup under the read lock, and bm.mu.RUnlock() (lines 170-174)
GetLookup(g) ==
    /\ UNCHANGED outsideMgr
    /\ gpc[g] = "rlocked"
    /\ mu' = [mu EXCEPT !.readers = @ \ {g}]
    /\ IF breakers[gname[g]] # 0
         THEN /\ gret' = [gret EXCEPT ![g] = breakers[gname[g]]]
              /\ gpc' = [gpc EXCEPT ![g] = "done"]
              /\ UNCHANGED missed
         ELSE /\ gpc' = [gpc EXCEPT ![g] = "unlocked"]
              /\ missed' = [missed EXCEPT ![g] = TRUE]
              /\ UNCHANGED gret
    /\ UNCHANGED <<breakers, gname, created>>

\* bm.mu.Lock() (line 176)
GetLock(g) ==
    /\ UNCHANGED outsideMgr
    /\ gpc[g] = "unlocked"
    /\ mu.readers = {}
    /\ mu.writer = 0
    /\ mu' = [mu EXCEPT !.writer = g]
    /\ gpc' = [gpc EXCEPT ![g] = "locked"]
    /\ UNCHANGED <<breakers, gname, gret, created, missed>>

\* lines 179-187 without the second lookup
GetCreateUnchecked(g) ==
    /\ UNCHANGED outsideMgr
    /\ gpc[g] = "locked"
    /\ mu' = [mu EXCEPT !.writer = 0]
    /\ gpc' = [gpc EXCEPT ![g] = "done"]
    /\ created' = [created EXCEPT ![gname[g]] = @ + 1]
    /\ breakers' = [breakers EXCEPT ![gname[g]] = created[gname[g]] + 1]
    /\ gret' = [gret EXCEPT ![g] = created[gname[g]] + 1]
    /\ UNCHANGED <<gname, missed>>

\* the lookup under the write lock, NewCircuitBreaker and the store, and the
\* deferred bm.mu.Unlock() (lines 177-187)
GetCreate(g) ==
    /\ UNCHANGED outsideMgr
    /\ gpc[g] = "locked"
    /\ mu' = [mu EXCEPT !.writer = 0]
    /\ gpc' = [gpc EXCEPT ![g] = "done"]
    /\ IF breakers[gname[g]] # 0
         THEN /\ gret' = [gret EXCEPT ![g] = breakers[gname[g]]]
              /\ UNCHANGED <<breakers, created>>
         ELSE /\ created' = [created EXCEPT ![gname[g]] = @ + 1]
              /\ breakers' = [breakers EXCEPT ![gname[g]] = created[gname[g]] + 1]
              /\ gret' = [gret EXCEPT ![g] = created[gname[g]] + 1]
    /\ UNCHANGED <<gname, missed>>

MgrNext ==
    \/ \E g \in Getters, name \in BreakerNames : GetRLock(g, name)
    \/ \E g \in Getters : GetLookup(g)
    \/ \E g \in Getters : GetLock(g)
    \/ \E g \in Getters : GetCreate(g)

---------------------------------------------------------------------------
(* API client factory: getBaseClient and NewAPIClient of package api        *)
(* (src/unnamed/part_014:104-149), the clients' doRequest                   *)
(* (src/unnamed/part_011:177-200, src/pkg/api/openweather.go:124-146), and  *)
(* the breakers their BreakerManager hands out.  Every scheduled job keeps  *)
(* the client NewApplication made for it; every manual sync makes its own.  *)
(* A call is gated, run and recorded in one step here; the interleavings   *)
(* of concurrent calls on one breaker are those of SpecBreaker.            *)

\* case "pokemon", case "openweather"
ClientAPIs == {"pokemon", "openweather"}

\* c.breakerManager.GetBreaker("pokemon-api"), GetBreaker("openweather-api")
TargetOf(api) == IF api = "pokemon" THEN "pokemon-api" ELSE "openweather-api"

Targets == {TargetOf(api) : api \in ClientAPIs}

\* the BreakerManagers of the clients of one process: those of the two
\* scheduled jobs and of one manual sync
ManagerIDs == {1, 2, 3}

NoBreaker == [state |-> "none"]

NoCall == [client |-> 0, res |-> "none", cooling |-> FALSE]

\* NewCircuitBreaker, as a value: the fields the decisions of the breaker
\* read (successCount and lastFailTime are only written)
NewBreaker ==
    [state |-> StateClosed, failureCount |-> 0, nextRetryTime |-> ZeroTime]

\* bm.GetBreaker(name) of manager m: the entry, created when there is none
GetBreaker(m, name) ==
    IF cbs[<<m, name>>] = NoBreaker THEN NewBreaker ELSE cbs[<<m, name>>]

\* canExecute of breaker b
CanExecuteOf(b) ==
    CASE b.state = StateClosed -> TRUE
      [] b.state = StateOpen -> After(now, b.nextRetryTime)
      [] b.state = StateHalfOpen -> TRUE
      [] OTHER -> FALSE

\* recordFailure of breaker b
RecordFailureOf(b) ==
    LET opens == \/ b.state = StateClosed /\ b.failureCount + 1 >= threshold
                 \/ b.state = StateHalfOpen
    IN  [b EXCEPT !.failureCount = @ + 1,
                  !.state = IF opens THEN StateOpen ELSE @,
                  !.nextRetryTime = IF opens THEN now + timeout ELSE @]

\* recordSuccess of breaker b
RecordSuccessOf(b) ==
    CASE b.state \in {StateClosed, StateHalfOpen} ->
            [b EXCEPT !.state = StateClosed, !.failureCount = 0]
      [] b.state = StateOpen ->
            [b EXCEPT !.state = IF After(now, b.nextRetryTime)
                                THEN StateHalfOpen ELSE @]
      [] OTHER -> b

\* no client made yet: once has not run, instance is nil
ApiInit ==
    /\ instance = 0
    /\ managers = 0
    /\ clients = <<>>
    /\ cbs = [k \in ManagerIDs \X Targets |-> NoBreaker]
    /\ apiCalls = 0
    /\ acall = NoCall
    /\ tstreak = [n \in Targets |-> [n |-> 0, base |-> TRUE, by |-> {}]]

\* getBaseClient that builds a BaseClient around the manager of every call
getBaseClientPerCall(m) == m

\* getBaseClient: a BreakerManager m is made on every call, but once.Do
\* stores a BaseClient (with the manager of that call) the first time only;
\* the stored instance is returned
getBaseClient(m) == IF instance = 0 THEN m ELSE instance

\* NewAPIClient(apiType, ...) for a supported type: NewPokemonClient or
\* NewOpenWeatherClient embeds getBaseClient(...)
NewAPIClient(api) ==
    /\ UNCHANGED outsideApi
    /\ managers + 1 \in ManagerIDs
    /\ managers' = managers + 1
    /\ instance' = getBaseClient(managers + 1)
    /\ clients' = Append(clients, [api |-> api, mgr |-> getBaseClient(managers + 1)])
    /\ UNCHANGED <<cbs, apiCalls, acall, tstreak>>

\* doRequest of client k: breaker := c.breakerManager.GetBreaker(name);
\* breaker.Execute(func() error { return c.retrier.Execute(ctx, ...) }),
\* where the retrier's call returns err
ClientDoRequest(k, err) ==
    /\ UNCHANGED outsideApi
    /\ k \in 1..Len(clients)
    /\ apiCalls < MaxCalls
    /\ LET name == TargetOf(clients[k].api)
           key == <<clients[k].mgr, name>>
           b == GetBreaker(clients[k].mgr, name)
           cooling == \E m \in ManagerIDs :
                          /\ cbs[<<m, name>>] # NoBreaker
                          /\ cbs[<<m, name>>].state = StateOpen
                          /\ now <= cbs[<<m, name>>].nextRetryTime
       IN  IF CanExecuteOf(b)
             THEN /\ cbs' = [cbs EXCEPT ![key] =
                               IF err = "nil" THEN RecordSuccessOf(b)
                               ELSE RecordFailureOf(b)]
                  /\ acall' = [client |-> k, res |-> err, cooling |-> cooling]
                  /\ tstreak' = [tstreak EXCEPT ![name] =
                        IF err = "nil"
                          THEN [n |-> 0, base |-> cbs'[key].state = StateClosed,
                                by |-> {}]
                          ELSE [@ EXCEPT !.n = @ + 1, !.by = @ \cup {k}]]
             ELSE /\ err = "nil"
                  /\ cbs' = [cbs EXCEPT ![key] = b]
                  /\ acall' = [client |-> k, res |-> ErrCircuitOpen,
                               cooling |-> cooling]
                  /\ UNCHANGED tstreak
    /\ apiCalls' = apiCalls + 1
    /\ UNCHANGED <<instance, managers, clients>>

ApiNext ==
    \/ \E api \in ClientAPIs : NewAPIClient(api)
    \/ \E k \in 1..Len(clients) : \E err \in {"nil", "error"} : ClientDoRequest(k, err)
    \/ ClockTick

---------------------------------------------------------------------------
(* Resilient client: PokemonClient.doRequest (src/unnamed/part_011) and     *)
(* OpenWeatherClient.doRequest (src/pkg/api/openweather.go):                *)
(*   breaker.Execute(func() error { return c.retrier.Execute(ctx, op) })    *)
(* One caller (caller 1 of the breaker) makes the calls, one after another. *)

\* What op returns: nil, or the error of BaseClient.doRequest wrapped by
\* NewNonRetryableError (shouldNotRetry: 4xx but 408 and 429) or by
\* NewRetryableError (everything else, a *url.Error around the context's
\* error included)
ClientResults ==
    { NilErr,
      Err("retryable", "transport"),
      Err("nonretryable", "http4xx") }

\* The error value the breaker sees: nil or not
AsBreakerErr(err) == IF err = NilErr THEN "nil" ELSE "error"

\* doRequest is called: breaker.Execute runs its gate
ClientCall ==
    /\ rpc = "idle"
    /\ ExecuteGate(1)

\* the breaker's operation starts: c.retrier.Execute(ctx, ...) is entered
ClientRetrierEnter ==
    /\ cpc[1] = "op"
    /\ RetrierEnter

\* one attempt of the retrier: the HTTP request is made and op returns err,
\* recorded on the breaker as well
ClientAttemptRecorded(err) ==
    /\ UNCHANGED <<jobVars, schedVars, pageVars, itemVars, mgrVars, apiVars>>
    /\ cpc[1] = "op"
    /\ rpc = "call"
    /\ outcomes' = Append(outcomes, err)
    /\ recordResult(AsBreakerErr(err))
    /\ IF err = NilErr \/ ~shouldRetry(err) \/ attempt + 1 > maxRetries
         THEN /\ rpc' = "done"
              /\ rret' = err
              /\ UNCHANGED <<attempt, delay>>
         ELSE /\ attempt' = attempt + 1
              /\ delay' \in calculateBackoff(attempt + 1)
              /\ rpc' = "sleep"
              /\ UNCHANGED rret
    /\ lastErr' = IF err = NilErr THEN lastErr ELSE err
    /\ UNCHANGED <<maxRetries, rctx, delays, threshold, timeout, now, cpc, cret,
                   opCalls, lastGate, streak, closedBase, tripTime>>

\* one attempt of the retrier: the HTTP request is made and op returns err
ClientAttempt(err) ==
    /\ cpc[1] = "op"
    /\ RetrierAttempt(err)

ClientWake ==
    /\ cpc[1] = "op"
    /\ RetrierWake

ClientCancelled ==
    /\ cpc[1] = "op"
    /\ RetrierCancelled

\* the context passed to doRequest ends while the call is in the retrier
ClientCtxEnds(how) ==
    /\ cpc[1] = "op"
    /\ RetrierCtxEnds(how)

\* retrier.Execute has returned: the breaker records its result and
\* breaker.Execute returns it
ClientRecord ==
    /\ rpc = "done"
    /\ ExecuteRecord(1, AsBreakerErr(rret))

\* doRequest has returned; the next call enters the retrier afresh, with its
\* own context
ClientReturn ==
    /\ UNCHANGED outsideRetrier
    /\ cpc[1] = "idle"
    /\ rpc = "done"
    /\ attempt' = 0
    /\ rpc' = "idle"
    /\ lastErr' = NilErr
    /\ rret' = "none"
    /\ delay' = 0
    /\ rctx' = "live"
    /\ outcomes' = <<>>
    /\ delays' = <<>>
    /\ UNCHANGED maxRetries

\* the client's breaker and retrier as its constructor makes them, the
\* breaker with the longest timeout
ClientInit ==
    /\ BreakerInit
    /\ timeout = MaxTimeout
    /\ RetrierInit

ClientNext ==
    \/ ClientCall
    \/ ClientRetrierEnter
    \/ \E err \in ClientResults : ClientAttempt(err)
    \/ ClientWake
    \/ ClientCancelled
    \/ \E how \in {"canceled", "deadline"} : ClientCtxEnds(how)
    \/ ClientRecord
    \/ ClientReturn
    \/ ClockTick

---------------------------------------------------------------------------
(* Specifications: one component runs, the others stay parked *)

InitBreaker == BreakerInit /\ RetrierParked /\ JobParked /\ SchedParked /\ PageParked /\ ItemsParked /\ MgrInit /\ ApiInit

SpecBreaker == InitBreaker /\ [][BreakerNext]_vars

\* the breaker under callers that keep calling and operations that, from
\* some point on, all succeed
SpecRecover == InitBreaker /\ [][RecoverNext]_vars /\ RecoverFairness

InitRetrier == RetrierInit /\ BreakerParked /\ JobParked /\ SchedParked /\ PageParked /\ ItemsParked /\ MgrInit /\ ApiInit

SpecRetrier == InitRetrier /\ [][RetrierNext]_vars

InitJob == JobInit /\ BreakerParked /\ RetrierParked /\ SchedParked /\ PageParked /\ ItemsParked /\ MgrInit /\ ApiInit

SpecJob == InitJob /\ [][JobNext]_vars

InitSched == SchedInit /\ BreakerParked /\ RetrierParked /\ JobParked /\ PageParked /\ ItemsParked /\ MgrInit /\ ApiInit

SpecSched == InitSched /\ [][SchedNext]_vars

InitApp == AppInit /\ BreakerParked /\ RetrierParked /\ JobParked /\ PageParked /\ ItemsParked /\ MgrInit /\ ApiInit

SpecApp == InitApp /\ [][AppNext]_vars

\* A scheduler used on its own, with one job registered, on which Start and
\* Stop are each called twice, in any order
SchedTwiceInit ==
    /\ enabled \in BOOLEAN
    /\ jobs = RegisterJob(NoJobs, SyncJobName, "job")
    /\ spc = [c \in StartCalls |-> "idle"]
    /\ stpc = [d \in StopCalls |-> "idle"]
    /\ appPc = "lib"
    /\ SchedRest

\* the ticker channels deliver MaxTicks values in all
SchedTwiceInterval(c) ==
    /\ intervals[1] + intervals[2] < MaxTicks
    /\ SchedInterval(c)

\* the jobs of this scheduler return without error
SchedTwiceNext ==
    \/ \E c \in StartCalls : SchedStart(c)
    \/ \E c \in StartCalls : SchedTwiceInterval(c)
    \/ \E c \in StartCalls : SchedSelectCtxDone(c)
    \/ \E c \in StartCalls : SchedSelectStop(c)
    \/ \E c \in StartCalls : SchedTick(c)
    \/ \E c \in StartCalls : \E j \in toLaunch[c] : SchedLaunch(c, j)
    \/ \E i \in Running : ExecReturns(i, "completed")
    \/ \E d \in StopCalls : SchedStop(d)
    \/ \E d \in StopCalls : SchedStopClose(d)
    \/ \E d \in StopCalls : SchedStopWait(d)
    \/ SchedCtxCancel

InitSchedTwice == SchedTwiceInit /\ BreakerParked /\ RetrierParked /\ JobParked /\ PageParked /\ ItemsParked /\ MgrInit /\ ApiInit

SpecSchedTwice == InitSchedTwice /\ [][SchedTwiceNext]_vars

\* NewScheduler with the worker enabled, after RegisterJob of two jobs
TimeoutInit ==
    /\ enabled = TRUE
    /\ jobs = RegisterJob(RegisterJob(NoJobs, "background-sync", "job"),
                          "other-sync", "job")
    /\ spc = [c \in StartCalls |-> IF c = 1 THEN "idle" ELSE "none"]
    /\ stpc = [d \in StopCalls |-> "idle"]
    /\ appPc = "lib"
    /\ SchedRest

\* the scheduler whose executions may outlast JobTimeout; Stop is not called
TimeoutNext ==
    \/ \E c \in StartCalls : SchedStart(c)
    \/ \E c \in StartCalls : SchedInterval(c)
    \/ \E c \in StartCalls : SchedSelectCtxDone(c)
    \/ \E c \in StartCalls : SchedTick(c)
    \/ \E c \in StartCalls : \E j \in toLaunch[c] : SchedLaunch(c, j)
    \/ \E i \in Running : \E outcome \in {"completed", "failed"} : ExecReturns(i, outcome)
    \/ \E i \in Running : ExecTimesOut(i)
    \/ SchedCtxCancel

InitTimeout == TimeoutInit /\ BreakerParked /\ RetrierParked /\ JobParked /\ PageParked /\ ItemsParked /\ MgrInit /\ ApiInit

SpecTimeout == InitTimeout /\ [][TimeoutNext]_vars

\* The retrier with an operation that fails with a retryable error or
\* succeeds, for settings of MaxRetries up to MaxBackoffRetries
BackoffInit ==
    /\ maxRetries \in 0..MaxBackoffRetries
    /\ attempt = 0
    /\ rpc = "idle"
    /\ lastErr = NilErr
    /\ rret = "none"
    /\ delay = 0
    /\ rctx = "live"
    /\ outcomes = <<>>
    /\ delays = <<>>

BackoffNext ==
    \/ RetrierEnter
    \/ \E err \in {NilErr, Err("retryable", "transport")} : RetrierAttempt(err)
    \/ RetrierWake

InitBackoff == BackoffInit /\ BreakerParked /\ JobParked /\ SchedParked /\ PageParked /\ ItemsParked /\ MgrInit /\ ApiInit

SpecBackoff == InitBackoff /\ [][BackoffNext]_vars

InitClient == ClientInit /\ JobParked /\ SchedParked /\ PageParked /\ ItemsParked /\ MgrInit /\ ApiInit

SpecClient == InitClient /\ [][ClientNext]_vars

\* FetchAllItems over every source of MaxPages pages
InitPage ==
    PageInit /\ BreakerParked /\ RetrierParked /\ JobParked /\ SchedParked
      /\ ItemsParked /\ MgrInit /\ ApiInit

SpecPage == InitPage /\ [][PageNext]_vars

InitParse ==
    ParseInit /\ BreakerParked /\ RetrierParked /\ JobParked /\ SchedParked
      /\ ItemsParked /\ MgrInit /\ ApiInit

SpecParse == InitParse /\ [][PageNext]_vars

\* the repository's writes to the items table
InitItems ==
    ItemsInit /\ BreakerParked /\ RetrierParked /\ JobParked /\ SchedParked
      /\ PageParked /\ MgrInit /\ ApiInit

SpecItems == InitItems /\ [][ItemsNext]_vars

\* concurrent GetBreaker calls on one BreakerManager
InitMgr ==
    MgrInit /\ BreakerParked /\ RetrierParked /\ JobParked /\ SchedParked
      /\ PageParked /\ ItemsParked /\ ApiInit

SpecMgr == InitMgr /\ [][MgrNext]_vars

\* the clients NewAPIClient hands out during one process, and their calls
InitApi ==
    ApiInit /\ BreakerInit /\ RetrierParked /\ JobParked /\ SchedParked
      /\ PageParked /\ ItemsParked /\ MgrInit

SpecApi == InitApi /\ [][ApiNext]_vars

---------------------------------------------------------------------------
(* Claims about the circuit breaker, checked under SpecBreaker *)

\* p's last pass through the gate was a probe: the gate saw the breaker Open
\* with its timeout elapsed and let the call through, and the breaker is still
\* Open when the operation returns
ProbeReturns(p, err) ==
    /\ cpc[p] = "op"
    /\ lastGate[p].st = StateOpen
    /\ state = StateOpen
    /\ cpc'[p] = "idle"
    /\ cret'[p] = err

\* C1: starting Closed, fewer than threshold consecutive failures leave the
\* breaker Closed; the threshold-th consecutive failure opens it with
\* nextRetryTime = (time of that failure) + timeout; and a call that reaches the
\* gate while the breaker is Open and now < nextRetryTime returns
\* ErrCircuitOpen without running the operation.
C1_TripAtThreshold ==
    /\ (closedBase /\ streak < threshold) => state = StateClosed
    /\ (closedBase /\ streak >= threshold) =>
            (state = StateOpen /\ nextRetryTime = tripTime + timeout)
    /\ \A p \in Callers :
            lastGate[p].cooling =>
                (~lastGate[p].admitted /\ cpc[p] = "idle" /\ cret[p] = ErrCircuitOpen)

C1_Witness ==
    /\ threshold >= 2
    /\ closedBase
    /\ streak = threshold
    /\ state = StateOpen
    /\ \E p \in Callers : lastGate[p].cooling /\ cret[p] = ErrCircuitOpen

\* caller p's Execute passes the gate in this step
GateStep(p) ==
    /\ cpc[p] = "idle"
    /\ \/ cpc'[p] = "op"
       \/ cret'[p] # cret[p]
       \/ lastGate'[p] # lastGate[p]

\* the operation is invoked for caller p in this step
Invoked(p) == cpc'[p] = "op" /\ opCalls' = opCalls + 1

\* caller p gets ErrCircuitOpen in this step and the operation is not invoked
Rejected(p) ==
    cpc'[p] = "idle" /\ cret'[p] = ErrCircuitOpen /\ opCalls' = opCalls

C22_SuccessResetsFailureCount ==
    [][/\ \A p \in Callers :
            (cpc[p] = "op" /\ cpc'[p] = "idle" /\ cret'[p] = "nil"
               /\ state = StateClosed)
              => (failureCount' = 0 /\ state' = StateClosed)
       /\ (state = StateClosed /\ state' = StateOpen)
              => (streak' = threshold /\ failureCount' = threshold)
      ]_vars

\* failures were recorded and a success in Closed has zeroed the count: the
\* breaker has never opened
C22_Witness ==
    /\ threshold >= 2
    /\ state = StateClosed
    /\ lastFailTime # ZeroTime
    /\ failureCount = 0
    /\ streak = 0
    /\ tripTime = ZeroTime
    /\ opCalls > threshold

\* caller p's operation returns err in this step and the result is recorded
RecordStep(p, err) == cpc[p] = "op" /\ cpc'[p] = "idle" /\ cret'[p] = err

\* C31: with the breaker in HalfOpen, a call reaching the gate invokes the
\* operation; a success recorded in HalfOpen leaves the breaker Closed with
\* failureCount and successCount 0; a failure recorded in HalfOpen leaves it
\* Open with nextRetryTime = now + timeout.
C31_HalfOpenTransitions ==
    [][\A p \in Callers :
          /\ (GateStep(p) /\ state = StateHalfOpen) => Invoked(p)
          /\ (RecordStep(p, "nil") /\ state = StateHalfOpen) =>
                 (state' = StateClosed /\ failureCount' = 0 /\ successCount' = 0)
          /\ (RecordStep(p, "error") /\ state = StateHalfOpen) =>
                 (state' = StateOpen /\ nextRetryTime' = now + timeout)]_vars

\* a call admitted by a HalfOpen breaker has failed and the breaker is Open
\* again with a retry time counted from that failure
C31_Witness ==
    \E p \in Callers :
        /\ lastGate[p].st = StateHalfOpen
        /\ lastGate[p].admitted
        /\ cpc[p] = "idle"
        /\ cret[p] = "error"
        /\ ~closedBase
        /\ state = StateOpen
        /\ lastFailTime = now
        /\ nextRetryTime = now + timeout

\* C38: in every reachable state, whatever the interleaving of the callers,
\* a Closed breaker has failureCount < threshold.
C38_ClosedBelowThreshold ==
    state = StateClosed => failureCount < threshold

\* a breaker that has tripped and recovered is Closed with a failure recorded
\* since, one short of the threshold
C38_Witness ==
    /\ state = StateClosed
    /\ tripTime # ZeroTime
    /\ failureCount > 0
    /\ failureCount = threshold - 1

\* C40: a failure recorded while the breaker is Open leaves state and
\* nextRetryTime as they are, adds one to failureCount and sets lastFailTime
\* to the time of recording; a success recorded while Open before
\* nextRetryTime leaves state and nextRetryTime as they are.
C40_RecordingWhileOpenKeepsGate ==
    [][\A p \in Callers :
          /\ (RecordStep(p, "error") /\ state = StateOpen) =>
                 /\ state' = StateOpen
                 /\ nextRetryTime' = nextRetryTime
                 /\ failureCount' = failureCount + 1
                 /\ lastFailTime' = now
          /\ (RecordStep(p, "nil") /\ state = StateOpen /\ now < nextRetryTime) =>
                 /\ state' = StateOpen
                 /\ nextRetryTime' = nextRetryTime]_vars

\* a call admitted by the Closed breaker has failed after the breaker was
\* opened by another caller at an earlier time: the breaker is still Open with
\* the retry time counted from the trip, not from this failure
C40_Witness ==
    \E p \in Callers :
        /\ lastGate[p].st = StateClosed
        /\ lastGate[p].admitted
        /\ cpc[p] = "idle"
        /\ cret[p] = "error"
        /\ state = StateOpen
        /\ failureCount > threshold
        /\ lastFailTime = now
        /\ nextRetryTime = tripTime + timeout
        /\ tripTime < now

\* C36: when, from some point on, every operation let through succeeds, and
\* calls keep arriving as time passes, a breaker that is Open is eventually
\* Closed and Closed from then on (checked under SpecRecover).
C36_OpenBreakerRecovers ==
    (state = StateOpen) ~> [](state = StateClosed)

\* a breaker that had tripped is Closed again, after a call admitted in
\* HalfOpen succeeded at a time when operations no longer fail
C36_Witness ==
    \E p \in Callers :
        /\ tripTime # ZeroTime
        /\ ~FailuresPossible
        /\ lastGate[p].st = StateHalfOpen
        /\ cpc[p] = "idle"
        /\ cret[p] = "nil"
        /\ state = StateClosed
        /\ failureCount = 0

\* C2: a probe (a call let through an Open breaker whose timeout has elapsed)
\* that fails leaves the breaker Open with nextRetryTime = now + timeout.
C2_ProbeFailureReopensFresh ==
    [][\A p \in Callers :
          ProbeReturns(p, "error") =>
              (state' = StateOpen /\ nextRetryTime' = now + timeout)]_vars

\* C3: a probe that succeeds leaves the breaker Closed with failureCount and
\* successCount both 0.
C3_ProbeSuccessCloses ==
    [][\A p \in Callers :
          ProbeReturns(p, "nil") =>
              (state' = StateClosed /\ failureCount' = 0 /\ successCount' = 0)]_vars

---------------------------------------------------------------------------
(* Claims about the retrier, checked under SpecRetrier *)

NonRetryableReturned(err) ==
    \/ err.mark = "nonretryable"
    \/ err.base \in {"context.Canceled", "context.DeadlineExceeded"}

\* C4: an invocation that returns a NonRetryableError, or a context
\* cancellation/deadline error, is the last one: Execute returns that error
\* at once, with no further sleep and no further invocation.
C4_NonRetryableStopsAtOnce ==
    \A i \in 1..Len(outcomes) :
        NonRetryableReturned(outcomes[i]) =>
            /\ i = Len(outcomes)
            /\ Len(delays) = i - 1
            /\ rpc = "done"
            /\ rret = outcomes[i]

---------------------------------------------------------------------------
(* Claims about the sync job, checked under SpecJob *)

\* C5: once Execute has returned, whatever the outcome, the run has exactly
\* one Run Record and its status is completed or failed.
C5_OneTerminalRunRecord ==
    jpc = "done" =>
        /\ Len(syncJobs) = 1
        /\ syncJobs[1].status \in {"completed", "failed"}

\* A step in which an upsert of a fetched record fails
UpsertFails ==
    /\ jpc \in {"pokemonLoop", "weatherItems"}
    /\ itemsProcessed' = itemsProcessed + 1
    /\ itemsFailed' = itemsFailed + 1

\* The step in which Execute returns and its deferred function runs
ExecuteReturns == jpc = "finalize" /\ jpc' = "done"

\* What Execute returns, and what its deferred update stores, is lastError
ReturnsLastError ==
    ExecuteReturns =>
        /\ jret' = lastError
        /\ ~ExecContextFails =>
               /\ syncJobs'[jobID].error_message = lastError
               /\ syncJobs'[jobID].status =
                      IF lastError = JNil THEN "completed" ELSE "failed"

\* C26 as stated: the error stored in the finalized Run Record and returned
\* by Execute is the first one observed: an upsert failure that comes after
\* another error of the run leaves the retained error as it is.
C26_FirstErrorReturned ==
    [][/\ (UpsertFails /\ lastError # JNil) => lastError' = lastError
       /\ ReturnsLastError]_vars

\* C26 amended: every upsert failure replaces the retained error with its
\* own (and a cancellation seen by the poll that follows replaces that), so
\* the error returned by Execute, and stored in the Run Record when the
\* finalizing update is executed, is the last error observed in the run.
C26_LastErrorReturned ==
    [][/\ UpsertFails =>
              \/ lastError' = JErr("upsert", itemsProcessed')
              \/ jctx # "live" /\ lastError' = JobCtxErr
       /\ ReturnsLastError]_vars

\* two records of one pokemon run failed to upsert, and the error of the
\* second is the one returned and stored
C26_Witness ==
    /\ apiType = "pokemon"
    /\ jpc = "done"
    /\ itemsFailed = 2
    /\ jret = JErr("upsert", 2)
    /\ syncJobs[jobID].status = "failed"
    /\ syncJobs[jobID].error_message = JErr("upsert", 2)

\* A step of the pokemon loop: one more fetched record has been processed
PokemonRecordProcessed ==
    /\ apiType = "pokemon"
    /\ jpc = "pokemonLoop"
    /\ itemsProcessed' = itemsProcessed + 1

\* C28: an upsert that fails is counted as failed and does not end the loop:
\* every step of the loop takes one record from those still to be upserted,
\* after a failure the loop goes on while there are any (unless it has seen
\* the job context cancelled), and Execute returns from a run whose fetch
\* succeeded and whose context is live with no record left; the counts
\* written to the Run Record have processed = succeeded + failed = the
\* number of fetched records.
C28_UpsertFailureDoesNotAbort ==
    [][/\ PokemonRecordProcessed =>
              /\ pending' = pending - 1
              /\ itemsSucceeded' + itemsFailed' = itemsProcessed'
              /\ itemsSucceeded' = itemsSucceeded =>
                     /\ itemsFailed' = itemsFailed + 1
                     /\ \/ pending' > 0 /\ jpc' = "pokemonLoop"
                        \/ pending' = 0 /\ jpc' = "finalize"
                        \/ jctx # "live"
       /\ (ExecuteReturns /\ apiType = "pokemon" /\ jctx = "live") =>
              /\ lastError.kind # "fetch" => pending = 0
              /\ syncJobs'[jobID].items_processed = itemsProcessed
              /\ syncJobs'[jobID].items_succeeded = itemsSucceeded
              /\ syncJobs'[jobID].items_failed = itemsFailed]_vars

\* the first of two fetched records failed to upsert, the second was
\* upserted, and the Run Record counts both
C28_Witness ==
    /\ apiType = "pokemon"
    /\ jpc = "done"
    /\ jctx = "live"
    /\ jret = JErr("upsert", 1)
    /\ syncJobs[jobID].items_processed = 2
    /\ syncJobs[jobID].items_succeeded = 1
    /\ syncJobs[jobID].items_failed = 1

\* C29: when the fetch of a pokemon run has failed, Execute returns the
\* fetch error, no record has been upserted, and the Run Record is failed
\* with that error and counts 0.
C29_FetchFailureFinalizedFailed ==
    (apiType = "pokemon" /\ jpc = "done" /\ jret.kind = "fetch") =>
        /\ itemsProcessed = 0
        /\ syncJobs[jobID].status = "failed"
        /\ syncJobs[jobID].error_message = jret
        /\ syncJobs[jobID].items_processed = 0
        /\ syncJobs[jobID].items_succeeded = 0
        /\ syncJobs[jobID].items_failed = 0

\* C37: a pokemon run makes no UpsertWithHash call before its fetch has
\* returned without error, and a run whose fetch returned an error (with
\* however many records of earlier pages) makes none at all: its counters and
\* its Run Record stay at zero.
C37_NoUpsertUnlessFetchSucceeded ==
    (apiType = "pokemon" /\ (jpc \in {"start", "dispatch"} \/ lastError.kind = "fetch")) =>
        /\ itemsProcessed = 0 /\ itemsSucceeded = 0 /\ itemsFailed = 0
        /\ \A i \in 1..Len(syncJobs) :
               /\ syncJobs[i].items_processed = 0
               /\ syncJobs[i].items_succeeded = 0
               /\ syncJobs[i].items_failed = 0

\* a pokemon run whose fetch returned records of earlier pages together with
\* an error has ended: nothing was upserted and the Run Record is failed
C37_Witness ==
    /\ apiType = "pokemon"
    /\ jpc = "done"
    /\ lastError.kind = "fetch"
    /\ pending > 0
    /\ itemsProcessed = 0
    /\ Len(syncJobs) = 1
    /\ syncJobs[1].status = "failed"
    /\ syncJobs[1].items_processed = 0

\* C35: in every finalized Run Record, of a pokemon or an openweather run,
\* items_processed = items_succeeded + items_failed.
C35_CountsConsistent ==
    \A i \in 1..Len(syncJobs) :
        syncJobs[i].status \in {"completed", "failed"} =>
            syncJobs[i].items_processed =
                syncJobs[i].items_succeeded + syncJobs[i].items_failed

---------------------------------------------------------------------------
(* Claims about the scheduler, checked under SpecSched *)

\* the executions that had been launched when Stop call d was made are over
InflightOver(d) ==
    \A i \in 1..launchedAtStop[d] : execs[i].st # "running"

\* the executions that Start call c launched for its tick t and job n
Fired(c, t, n) ==
    {i \in 1..Len(execs) : execs[i].by = c /\ execs[i].tick = t /\ execs[i].job = n}

\* every tick taken by Start call c fires each registered job exactly once
\* (for the tick being processed, the job may still be in executeJobs' slice)
TickFiresAll(c) ==
    \A t \in 1..ticksTaken[c] : \A n \in DOMAIN jobs :
        LET waiting == IF spc[c] = "launch" /\ t = ticksTaken[c]
                            /\ (\E j \in toLaunch[c] : j.job = n)
                       THEN 1 ELSE 0
        IN  Cardinality(Fired(c, t, n)) + waiting = 1

\* C6, as claimed: whenever a Stop call has returned, every execution that
\* was running when it was called has finished.
C6_EveryStopWaits ==
    \A d \in StopCalls : stpc[d] = "returned" => InflightOver(d)

\* C6, amended: a Stop call that found the scheduler running has, when it
\* returns, seen every execution that was running when it was called finish.
C6_StopOfRunningSchedulerWaits ==
    \A d \in StopCalls :
        (stpc[d] = "returned" /\ foundRunning[d]) => InflightOver(d)

C6_Witness ==
    \E d \in StopCalls :
        /\ stpc[d] = "returned"
        /\ foundRunning[d]
        /\ inflightAtStop[d] >= 2
        /\ InflightOver(d)

\* C7: a job that panics does not bring the scheduler's process down.
C7_PanicContained ==
    (\E i \in 1..Len(execs) : execs[i].st = "panicked") => crashed = "no"

\* C9: on every tick each registered job gets its own execution, and neither
\* the launch of a job nor the completion of a running one ever waits for
\* another job of the tick, be it still running or failed; the jobs considered
\* are those of the claim, which run on, complete or return an error.
C9_JobsIndependent ==
    (\A i \in 1..Len(execs) : execs[i].st \in {"running", "completed", "failed"}) =>
        /\ \A c \in StartCalls : TickFiresAll(c)
        /\ \A c \in StartCalls : \A j \in toLaunch[c] :
                spc[c] = "launch" => ENABLED SchedLaunch(c, j)
        /\ \A i \in Running : ENABLED ExecReturns(i, "completed")

C9_Witness ==
    \E i, k, m \in 1..Len(execs) :
        /\ execs[i].tick = execs[k].tick
        /\ execs[i].tick # execs[m].tick
        /\ i < k
        /\ execs[i].st = "running"
        /\ execs[k].st = "completed"
        /\ execs[m].st = "failed"

\* C10, as claimed: by the time the first interval has elapsed, Start has
\* already fired every registered job.
C10_FiredBeforeFirstInterval ==
    \A c \in StartCalls :
        intervals[c] >= 1 =>
            \A n \in DOMAIN jobs : \E t \in 1..MaxExecs : Fired(c, t, n) # {}

\* C10, amended: Start fires nothing when it is called; jobs are fired only
\* when the loop takes an interval tick, the k-th firing needing k elapsed
\* intervals; each tick taken fires every registered job exactly once; and
\* once Start has returned (context cancelled, or Stop) nothing is left to fire.
C10_FiresOnTicksOnly ==
    \A c \in StartCalls :
        /\ ticksTaken[c] <= intervals[c]
        /\ \A i \in 1..Len(execs) :
                execs[i].by = c => execs[i].tick \in 1..ticksTaken[c]
        /\ TickFiresAll(c)
        /\ spc[c] = "returned" => toLaunch[c] = {}

C10_Witness ==
    \E c \in StartCalls :
        /\ spc[c] = "select"
        /\ ticksTaken[c] = 2
        /\ Cardinality(DOMAIN jobs) = 2
        /\ Len(execs) = 4

\* C33: once a Stop call that found the scheduler running has returned, no
\* step launches a job execution.
C33_NoLaunchAfterStop ==
    [][(\E d \in StopCalls : stpc[d] = "returned" /\ foundRunning[d])
          => Len(execs') = Len(execs)]_vars

---------------------------------------------------------------------------
(* Claims about repeated Start and Stop calls, checked under SpecSchedTwice *)

\* C11: a Start call made when the last call to take the lock was a Start
\* returns at once: it starts no loop and no ticker, fires no job and changes
\* nothing; a Stop call made when the last call to take the lock was a Stop
\* returns at once: it closes nothing, waits for nothing, and does not panic.
C11_DoubleStartDoubleStopNoOps ==
    [][ /\ \A c \in StartCalls :
              (spc[c] = "idle" /\ spc'[c] # "idle" /\ lastCall = "start") =>
                  /\ spc'[c] = "returned"
                  /\ UNCHANGED <<running, ticker, toLaunch, execs, wg, ticksTaken,
                                 stopChan, crashed>>
        /\ \A d \in StopCalls :
              (stpc[d] = "idle" /\ stpc'[d] # "idle" /\ lastCall = "stop") =>
                  /\ stpc'[d] = "returned"
                  /\ UNCHANGED <<running, stopChan, wg, execs, spc, crashed>>
      ]_vars

\* both Start calls were made before the first Stop, and the second Stop
\* straight after the first; the first Start's loop had fired the job
C11_Witness ==
    /\ enabled
    /\ lastCall = "stop"
    /\ foundRunning[1] /\ ~foundRunning[2]
    /\ stpc[1] = "returned" /\ stpc[2] = "returned"
    /\ spc[1] = "returned" /\ spc[2] = "returned"
    /\ ticksTaken[1] >= 1 /\ ticksTaken[2] = 0
    /\ crashed = "no"

\* C34: no Start or Stop call panics, in whatever order the calls are made:
\* Stop never closes a stop channel that is closed already.
C34_LifecyclePanicFree ==
    /\ \A d \in StopCalls : stpc[d] # "panicked"
    /\ crashed = "no"

---------------------------------------------------------------------------
(* Claims about the resilient client, checked under SpecClient *)

\* C12: one client call is one breaker decision.  The gate runs before the
\* retrier is entered and not again while it retries; the breaker's state and
\* counters change only when the retrier has returned, in the one step that
\* records the call; that step raises failureCount by exactly 1 when the call
\* failed, and does not raise it when the call succeeded.
C12_OneBreakerDecisionPerCall ==
    [][ /\ (lastGate' # lastGate \/ opCalls' # opCalls) =>
                (rpc = "idle" /\ outcomes = <<>> /\ cpc[1] = "idle")
        /\ (failureCount' # failureCount \/ successCount' # successCount
                \/ state' # state \/ nextRetryTime' # nextRetryTime) =>
                (cpc[1] = "op" /\ cpc'[1] = "idle" /\ rpc = "done")
        /\ (cpc[1] = "op" /\ cpc'[1] = "idle") =>
                IF rret = NilErr
                  THEN failureCount' <= failureCount
                  ELSE failureCount' = failureCount + 1
      ]_vars

\* a call that made three attempts, the last of which failed, has just been
\* recorded: one failure counted
C12_Witness ==
    /\ cpc[1] = "idle"
    /\ rpc = "done"
    /\ Len(outcomes) >= 3
    /\ rret # NilErr
    /\ failureCount = 1
    /\ opCalls = 1

---------------------------------------------------------------------------
(* Further claims about the retrier, checked under SpecRetrier *)

\* an error that is neither marked non-retryable nor a context error
RetryableFailure(err) ==
    /\ err # NilErr
    /\ err.mark # "nonretryable"
    /\ ~ErrorsIs(err, ContextCanceled)
    /\ ~ErrorsIs(err, ContextDeadlineExceeded)

\* C14: Execute never invokes the operation more than maxRetries+1 times nor
\* after an invocation that succeeded; when it has returned, the operation
\* was invoked at least once; it returns nil exactly when the last invocation
\* succeeded; and when maxRetries+1 invocations all failed with retryable
\* errors it returns the error of the last one.
C14_AttemptsAndResult ==
    /\ Len(outcomes) <= maxRetries + 1
    /\ \A i \in 1..(Len(outcomes) - 1) : outcomes[i] # NilErr
    /\ (Len(outcomes) > 0 /\ outcomes[Len(outcomes)] = NilErr) =>
            (rpc = "done" /\ rret = NilErr)
    /\ rpc = "done" =>
            /\ Len(outcomes) >= 1
            /\ (rret = NilErr) => outcomes[Len(outcomes)] = NilErr
            /\ ( /\ Len(outcomes) = maxRetries + 1
                 /\ \A i \in 1..Len(outcomes) : RetryableFailure(outcomes[i]) ) =>
                    rret = outcomes[Len(outcomes)]

\* Execute has returned after maxRetries+1 = 3 failed invocations whose
\* errors differ, with the error of the last one
C14_Witness ==
    /\ rpc = "done"
    /\ maxRetries = 2
    /\ Len(outcomes) = 3
    /\ \A i \in 1..3 : RetryableFailure(outcomes[i])
    /\ outcomes[1] # outcomes[3]
    /\ rret = outcomes[3]

\* C16: when the context has ended while Execute waits before a retry (a
\* wait of positive length), the wait ends with Execute returning the
\* context's error, without another invocation of the operation; and once
\* Execute has returned the operation is not invoked again.
C16_BackoffCancellable ==
    [][ /\ (rpc = "sleep" /\ rctx # "live" /\ delay > 0 /\ rpc' # "sleep") =>
                /\ rpc' = "done"
                /\ rret' = CtxErr(rctx)
                /\ outcomes' = outcomes
        /\ rpc = "done" => (rpc' = "done" /\ outcomes' = outcomes)
      ]_vars

\* Execute returned context.Canceled out of the wait that followed its second
\* failed invocation, with retries left
C16_Witness ==
    /\ rpc = "done"
    /\ rret = ContextCanceled
    /\ Len(outcomes) = 2
    /\ maxRetries = 3
    /\ \A i \in 1..2 : RetryableFailure(outcomes[i])
    /\ Len(delays) = 1

---------------------------------------------------------------------------
(* Claim about the backoff delays, checked under SpecBackoff *)

\* min(initialDelay * backoffFactor^(k-1), maxDelay)
BackoffOf(k) ==
    LET d == InitialDelay * PowUpTo(BackoffFactor, k - 1, MaxDelay + 1)
    IN  IF d > MaxDelay THEN MaxDelay ELSE d

\* C15: every sleep follows an invocation of the operation (none precedes the
\* first), the sleep before retry k is min(initialDelay * backoffFactor^(k-1),
\* maxDelay), and the sleeps never decrease nor exceed maxDelay.
C15_BackoffDelays ==
    /\ Len(delays) <= Len(outcomes)
    /\ \A k \in 1..Len(delays) : delays[k] = BackoffOf(k)
    /\ \A k \in 1..(Len(delays) - 1) : delays[k] <= delays[k + 1]
    /\ \A k \in 1..Len(delays) : delays[k] <= MaxDelay

---------------------------------------------------------------------------
(* Claims about pagination (SpecPage) *)

\* request.Params["limit"], or the default without one
RequestedLimit == IF reqLimit = 0 THEN DefaultLimit ELSE reqLimit

RECURSIVE PagesUpTo(_)
\* the records of the first n pages of the source, in order
PagesUpTo(n) ==
    IF n = 0 THEN <<>>
    ELSE PagesUpTo(n - 1) \o PageItems(n, pages[n].size)

\* n >= 1 pages, every page but the last full and with a cursor, the last
\* page without one
FullPagesThenLast ==
    /\ Len(pages) >= 1
    /\ \A i \in 1..(Len(pages) - 1) :
          /\ pages[i].size = RequestedLimit
          /\ pages[i].next.kind # "none"
    /\ pages[Len(pages)].next = NoCursor

\* C17: when the source serves n pages of which every page but the last is
\* full and carries a next cursor, FetchAllItems returns the n pages
\* concatenated in order and has called Fetch exactly n times.
C17_AllPagesInOrder ==
    (ppc = "done" /\ ~perr /\ FullPagesThenLast)
      => /\ allItems = PagesUpTo(Len(pages))
         /\ fetchCalls = Len(pages)

\* C18: a page with fewer records than the limit asked for it is the last
\* one fetched: the loop has ended, the page's records close the result, and
\* this holds whatever cursor the page carries.
C18_ShortPageEndsLoop ==
    \A k \in 1..Len(fetched) :
        fetched[k].size < fetched[k].limit
          => /\ k = Len(fetched)
             /\ ppc = "done"
             /\ Len(allItems) >= fetched[k].size
             /\ SubSeq(allItems, Len(allItems) - fetched[k].size + 1,
                       Len(allItems)) = PageItems(k, fetched[k].size)

\* C27: a non-empty page that has exactly as many records as the limit it
\* was asked with, and that carries a next cursor, is followed by a further
\* Fetch (made, or about to be made by the loop), whatever limit the cursor
\* names.
C27_FullPageWithCursorContinues ==
    \A k \in 1..Len(fetched) :
        (/\ fetched[k].size >= 1
         /\ fetched[k].size = fetched[k].limit
         /\ fetched[k].next.kind # "none")
          => (fetchCalls > k \/ ppc = "loop")

\* C25: a next-page URL with offset=N and no limit parses to (N, 20), one
\* with limit=M and no offset to (0, M), and one with both to (N, M): the
\* offset and limit FetchAllItems goes on with after the page that carried it.
C25_NextURLDefaults ==
    (Len(fetched) >= 1 /\ fetched[1].next.kind = "url")
      => LET c == fetched[1].next
         IN  /\ (c.offset.kind = "number" /\ c.limit.kind = "absent")
                  => (poffset = c.offset.value /\ plimit = 20)
             /\ (c.offset.kind = "absent" /\ c.limit.kind = "number")
                  => (poffset = 0 /\ plimit = c.limit.value)
             /\ (c.offset.kind = "number" /\ c.limit.kind = "number")
                  => (poffset = c.offset.value /\ plimit = c.limit.value)

\* a URL with an offset and no limit has been parsed
C25_Witness ==
    /\ Len(fetched) >= 1
    /\ fetched[1].next.kind = "url"
    /\ fetched[1].next.offset.kind = "number"
    /\ fetched[1].next.limit.kind = "absent"
    /\ poffset = fetched[1].next.offset.value
    /\ plimit = 20

---------------------------------------------------------------------------
(* Claims about the items table (SpecItems) *)

\* the content hash of the last UpsertWithHash call for pair k
LastHash(k) == calculateContentHash(ups[k].title, ups[k].extend_info)

\* C19: there is at most one row per (externalID, source); once
\* UpsertWithHash was called for a pair its one row counts the calls in
\* sync_attempts (1 after the first, 2 after the second) and holds the hash
\* of the last call's content, so that a call repeating the content of the
\* one before leaves content_hash as it was.
C19_OneRowPerPairAttemptsCounted ==
    \A k \in ItemKeys :
        /\ Len(items[k]) <= 1
        /\ ups[k].n > 0
             => /\ Len(items[k]) = 1
                /\ items[k][1].sync_attempts = ups[k].n
                /\ items[k][1].content_hash = LastHash(k)

\* two calls with the same content for a pair, the second one the last
C19_Witness ==
    \E k \in ItemKeys :
        /\ ups[k].n = 2
        /\ ups[k].same
        /\ Len(items[k]) = 1
        /\ items[k][1].sync_attempts = 2
        /\ items[k][1].content_hash = LastHash(k)

\* C20: an UpsertWithHash call that finds no row for its pair inserts one
\* with sync_attempts 1; one that finds a row leaves the number of rows as
\* it is and, in that row, stores the new title and description, stores the
\* new attribute bag if the stored hash differs from the new one and keeps
\* the stored bag if not, stores the new hash, adds 1 to sync_attempts and
\* sets last_sync_error to NULL.
C20_UpsertConflictSemantics ==
    [][\A k \in ItemKeys :
          ups'[k].n = ups[k].n + 1
            => LET hash == calculateContentHash(ups'[k].title,
                                                ups'[k].extend_info)
               IN  IF items[k] = <<>>
                     THEN /\ Len(items'[k]) = 1
                          /\ items'[k][1].sync_attempts = 1
                          /\ items'[k][1].content_hash = hash
                     ELSE /\ Len(items'[k]) = Len(items[k])
                          /\ \A i \in 1..Len(items[k]) :
                                /\ items'[k][i].title = ups'[k].title
                                /\ items'[k][i].description = ""
                                /\ items'[k][i].extend_info =
                                      (IF items[k][i].content_hash # hash
                                         THEN ups'[k].extend_info
                                         ELSE items[k][i].extend_info)
                                /\ items'[k][i].content_hash = hash
                                /\ items'[k][i].sync_attempts =
                                      items[k][i].sync_attempts + 1
                                /\ items'[k][i].last_sync_error = Null
      ]_vars

\* a call found a row with other content and an error recorded
C20_Witness ==
    \E k \in ItemKeys :
        /\ ups[k].n >= 2
        /\ ups[k].cleared
        /\ ~ups[k].same
        /\ Len(items[k]) = 1
        /\ items[k][1].sync_attempts = ups[k].n
        /\ items[k][1].extend_info = ups[k].extend_info
        /\ items[k][1].description = ""
        /\ items[k][1].last_sync_error = Null

\* C39: every row UpsertWithHash has written holds, in content_hash, the
\* hash of the title and attribute bag stored in that same row, and the
\* stored title and attribute bag are those of the last call for the pair.
C39_StoredHashMatchesStoredContent ==
    \A k \in ItemKeys :
        ups[k].n > 0 =>
            \A i \in 1..Len(items[k]) :
                /\ items[k][i].content_hash =
                       calculateContentHash(items[k][i].title, items[k][i].extend_info)
                /\ items[k][i].title = ups[k].title
                /\ items[k][i].extend_info = ups[k].extend_info

\* a row upserted at least twice, the last call with content other than the
\* one before: the row holds the last call's bag and its hash
C39_Witness ==
    \E k \in ItemKeys :
        /\ ups[k].n >= 2
        /\ ~ups[k].same
        /\ Len(items[k]) = 1
        /\ items[k][1].title = ups[k].title
        /\ items[k][1].extend_info = ups[k].extend_info
        /\ items[k][1].content_hash =
               calculateContentHash(items[k][1].title, items[k][1].extend_info)

---------------------------------------------------------------------------
(* Claims about the breaker registry (SpecMgr) *)

\* C23: for every interleaving of GetBreaker calls, at most one
\* CircuitBreaker is ever created per name, and every call that has returned
\* has returned that one breaker, the one the registry holds.
C23_OneBreakerPerName ==
    /\ \A n \in BreakerNames : created[n] <= 1 /\ breakers[n] = created[n]
    /\ \A g \in Getters :
          gpc[g] = "done" => (gret[g] = 1 /\ breakers[gname[g]] = 1)

\* two first calls for one name at once: both found no entry under the read
\* lock, and both have returned the one breaker
C23_Witness ==
    \E g, h \in Getters :
        /\ g # h
        /\ gname[g] = gname[h]
        /\ missed[g] /\ missed[h]
        /\ gpc[g] = "done" /\ gpc[h] = "done"
        /\ gret[g] = gret[h]
        /\ created[gname[g]] = 1

\* C24: with the scheduler disabled by configuration, no Start call gets
\* past its return (none reaches the select loop or creates a ticker), and
\* no job execution is launched, whatever jobs are registered.
C24_DisabledSchedulerLaunchesNothing ==
    ~enabled =>
        /\ \A c \in StartCalls : spc[c] \in {"none", "idle", "returned"}
        /\ \A c \in StartCalls : toLaunch[c] = {}
        /\ execs = <<>>
        /\ wg = 0

\* Start was called on a disabled scheduler with jobs registered
C24_Witness ==
    /\ ~enabled
    /\ DOMAIN jobs # {}
    /\ running
    /\ \E c \in StartCalls : spc[c] = "returned"

---------------------------------------------------------------------------
(* Claims about the per-job timeout (SpecTimeout) *)

\* Execution i passes its timeout in this step
TimesOut(i) ==
    /\ execs[i].jobCtx = "live"
    /\ execs'[i].jobCtx = "deadline"

\* C30: the step in which an execution passes JobTimeout ends the context of
\* that execution only: the context given to Start, the select loop, the
\* ticker, the stop channel and every other execution with its context are
\* as before; and whatever executions have timed out, every tick taken
\* fires each registered job once, each in an execution of its own whose
\* context is done only through its own deadline or the parent's
\* cancellation.
C30_JobTimeoutIsLocal ==
    /\ [][\A i \in 1..Len(execs) :
            TimesOut(i) =>
                /\ sctx' = sctx
                /\ spc' = spc
                /\ running' = running
                /\ stopChan' = stopChan
                /\ ticker' = ticker
                /\ toLaunch' = toLaunch
                /\ wg' = wg
                /\ crashed' = crashed
                /\ Len(execs') = Len(execs)
                /\ \A k \in 1..Len(execs) :
                       k # i => (execs'[k] = execs[k]
                                 /\ (ExecCtxDone(k))' = ExecCtxDone(k))]_vars
    /\ [](\A c \in StartCalls : TickFiresAll(c))
    /\ [](\A c \in StartCalls :
            (/\ spc[c] = "select"
             /\ ticker[c]
             /\ Len(execs) + Cardinality(DOMAIN jobs) <= MaxExecs)
              => ENABLED SchedTick(c))

\* an execution of the first tick has timed out while the other execution of
\* that tick runs on with a live context, and a later tick has fired both
\* jobs again
C30_Witness ==
    \E i, k, m, n \in 1..Len(execs) :
        /\ execs[i].tick = 1 /\ execs[k].tick = 1 /\ i # k
        /\ execs[i].jobCtx = "deadline"
        /\ execs[k].st = "running" /\ ~ExecCtxDone(k)
        /\ execs[m].tick = 2 /\ execs[n].tick = 2
        /\ execs[m].job # execs[n].job
        /\ ~ExecCtxDone(m) /\ ~ExecCtxDone(n)
        /\ spc[1] = "select"

---------------------------------------------------------------------------
(* Claims about the API client factory (SpecApi) *)

\* the clients made for API type api
ClientsOf(api) == {k \in 1..Len(clients) : clients[k].api = api}

\* C32: every client NewAPIClient has returned holds the one BreakerManager
\* of the process, which holds at most one breaker per target; so once
\* threshold failures have been recorded for a target in a row from a
\* Closed breaker, by whichever clients, the breaker every client of that
\* target gets is Open; and a call made while a breaker of its target is
\* Open and its retry time has not passed is rejected, whichever client
\* makes it.
C32_OneBreakerPerTargetAcrossClients ==
    /\ \A k \in 1..Len(clients) : clients[k].mgr = instance
    /\ \A n \in Targets :
          Cardinality({m \in ManagerIDs : cbs[<<m, n>>] # NoBreaker}) <= 1
    /\ \A api \in ClientAPIs : \A k \in ClientsOf(api) :
          LET t == tstreak[TargetOf(api)]
          IN  (t.base /\ t.n >= threshold) =>
                  GetBreaker(clients[k].mgr, TargetOf(api)).state = StateOpen
    /\ acall.cooling => acall.res = ErrCircuitOpen

\* two clients of one target have each had a failure, which together opened
\* the target's breaker, and the call of a third client was rejected
C32_Witness ==
    \E api \in ClientAPIs :
        /\ threshold = 2
        /\ tstreak[TargetOf(api)].base
        /\ tstreak[TargetOf(api)].n = 2
        /\ Cardinality(tstreak[TargetOf(api)].by) = 2
        /\ acall.client \in ClientsOf(api) \ tstreak[TargetOf(api)].by
        /\ acall.cooling
        /\ acall.res = ErrCircuitOpen

---------------------------------------------------------------------------
(* Claims about the application's scheduler, checked under SpecApp *)

\* C8: with the worker enabled, the registry built by NewApplication holds a
\* job for each of the two sources.
C8_BothSourcesRegistered ==
    (appPc = "built" /\ enabled) =>
        {jobs[n] : n \in DOMAIN jobs} = {"pokemon", "openweather"}

===========================================================================
